---------------------------- MODULE Spec2Model ----------------------------
(***************************************************************************)
(* A model of the analysis core of sdaudit: the dependency graph, the      *)
(* failure propagation analyses, the critical-path computation, the graph  *)
(* builder and the rule engine.  Each analysis is an action that applies   *)
(* the translated function to the current graph and records its result in  *)
(* `out`.                                                                  *)
(***************************************************************************)
EXTENDS Integers, Sequences, FiniteSets, TLC

VARIABLES
    units,      \* the unit set: unit name -> unit record
    allEdges,   \* Graph.allEdges: the ordered sequence of edges
    registry,   \* rules.registry: rule id -> registered rule
    registryLock, \* rules.registryLock: "unlocked", "locked" or "rlocked"
    call,       \* the registry operation in progress and its argument
    config,     \* rules.Config: the disabled rules and the severity overrides
    pc,         \* the phase of the run
    out,        \* the results of the analyses run so far, oldest first
    files,      \* the file system: the state of each file by path
    tui,        \* the Model of the terminal UI
    mu          \* Graph.mu: the readers holding it and the state of the writer

vars == <<units, allEdges, registry, registryLock, call, config, pc, out, files, tui, mu>>

-----------------------------------------------------------------------------
(* Names and generic helpers *)

Names == {"a", "b", "c"}

Range(s) == {s[i] : i \in 1..Len(s)}

\* The names of the dependencies of long chains.
DepNames == <<"d01", "d02", "d03", "d04", "d05", "d06", "d07", "d08", "d09",
              "d10", "d11", "d12", "d13", "d14">>

\* Lexicographic order of the unit names used in the model.
NameOrd(n) ==
    CASE n = "a" -> 1 [] n = "a.service" -> 2 [] n = "a.socket" -> 3
      [] n = "b" -> 4 [] n = "b.service" -> 5 [] n = "c" -> 6 [] n = "d" -> 7
      [] n \in Range(DepNames) -> 7 + (CHOOSE i \in 1..Len(DepNames) : DepNames[i] = n)
      [] n = "t.target" -> 7 + Len(DepNames) + 1
      [] OTHER -> 7 + Len(DepNames) + 2

NoUnits == [n \in {} |-> 0]

\* The registry before any rule is registered.
NoRules == [id \in {} |-> 0]

\* No registry operation in progress.
NoCall == [op |-> "", rule |-> ""]

\* sync.RWMutex, unlocked.
NoLock == [readers |-> 0, writer |-> "none"]

\* No terminal UI is running.
NoModel == [view |-> "", quitting |-> FALSE, width |-> 0, height |-> 0]

\* A file system without files.
NoFiles == [path \in {} |-> ""]

\* rules.DefaultConfig: nothing disabled, no severity overridden.
DefaultConfig == [DisabledRules |-> {}, SeverityOverrides |-> [r \in {} |-> 0]]

\* A nil *Config.
NoConfig == [nil |-> TRUE]

\* All orders in which a Go map with key set S can be ranged over.
RECURSIVE Perms(_)
Perms(S) ==
    IF S = {} THEN {<<>>}
    ELSE UNION {{<<x>> \o p : p \in Perms(S \ {x})} : x \in S}

-----------------------------------------------------------------------------
(* The graph (internal/graph): edges and the per-unit indices *)

Edge(f, t, ty) == [from |-> f, to |-> t, type |-> ty]

\* Graph.AddEdge: the edge is appended to the ordered edge sequence.
AddEdge(E, e) == Append(E, e)

\* Graph.EdgesTo / Graph.EdgesFrom: the incoming / outgoing index of a unit.
EdgesTo(E, name) == SelectSeq(E, LAMBDA e : e.to = name)

EdgesFrom(E, name) == SelectSeq(E, LAMBDA e : e.from = name)

IsRequirementEdge(ty) == ty \in {"Requires", "Requisite", "Wants", "BindsTo"}

-----------------------------------------------------------------------------
(* Failure propagation (internal/propagation/failure.go) *)

\* Semantics / GetSemantics: the propagation behaviour of an edge type.
GetSemantics(ty) ==
    CASE ty = "Requires"  -> [StartFailure |-> TRUE,  StopPropagates |-> FALSE]
      [] ty = "Requisite" -> [StartFailure |-> TRUE,  StopPropagates |-> FALSE]
      [] ty = "BindsTo"   -> [StartFailure |-> TRUE,  StopPropagates |-> TRUE]
      [] ty = "Wants"     -> [StartFailure |-> FALSE, StopPropagates |-> FALSE]
      [] ty = "PartOf"    -> [StartFailure |-> FALSE, StopPropagates |-> TRUE]
      [] ty = "Conflicts" -> [StartFailure |-> FALSE, StopPropagates |-> FALSE]
      [] OTHER            -> [StartFailure |-> FALSE, StopPropagates |-> FALSE]

EdgeSeverity(ty) ==
    IF ty = "Requisite" THEN "critical"
    ELSE IF ty \in {"BindsTo", "Requires"} THEN "high"
    ELSE "medium"

\* The test of line 134 left out: every dependent is recorded.
AlwaysRecord(st, dependent) == TRUE

\* !visited[dependent], the test at line 134 before a unit is recorded.
NotYetVisited(st, dependent) == dependent \notin st.visited

\* The closure `propagate` of SimulateFailure.  st holds the two variables
\* the closure shares across calls: visited and impact.AffectedUnits.
RECURSIVE propagate(_, _, _, _, _)
RECURSIVE propagateEdges(_, _, _, _, _, _)
propagate(E, st, unit, path, impactType) ==
    IF unit \in st.visited THEN st
    ELSE propagateEdges(E, [st EXCEPT !.visited = @ \cup {unit}],
                        EdgesTo(E, unit), 1, path, impactType)

propagateEdges(E, st, edges, i, path, impactType) ==
    IF i > Len(edges) THEN st
    ELSE
      LET edge == edges[i]
          sem == GetSemantics(edge.type)
          dependent == edge.from
          newPath == Append(path, dependent)
          shouldPropagate ==
              \/ impactType = "fail" /\ sem.StartFailure
              \/ impactType = "stop" /\ sem.StopPropagates
          newImpact == IF impactType = "fail" THEN "fail_to_start" ELSE "stop"
          au == [Name |-> dependent, Impact |-> newImpact,
                 PropagationPath |-> newPath, EdgeType |-> edge.type,
                 Severity |-> EdgeSeverity(edge.type)]
      IN IF shouldPropagate /\ NotYetVisited(st, dependent)
         THEN propagateEdges(E,
                  propagate(E, [st EXCEPT !.affected = Append(@, au)],
                            dependent, newPath, newImpact),
                  edges, i + 1, path, impactType)
         ELSE propagateEdges(E, st, edges, i + 1, path, impactType)

RECURSIVE LongestCritical(_, _, _)
LongestCritical(affected, i, best) ==
    IF i > Len(affected) THEN best
    ELSE IF /\ affected[i].Severity \in {"critical", "high"}
            /\ Len(affected[i].PropagationPath) > Len(best)
         THEN LongestCritical(affected, i + 1, affected[i].PropagationPath)
         ELSE LongestCritical(affected, i + 1, best)

SimulateFailure(E, failedUnit) ==
    LET s1 == propagate(E, [visited |-> {}, affected |-> <<>>],
                        failedUnit, <<failedUnit>>, "fail")
        \* "Reset for stop propagation": a fresh visited map that already
        \* holds the failed unit.
        s2 == propagate(E, [visited |-> {failedUnit}, affected |-> s1.affected],
                        failedUnit, <<failedUnit>>, "stop")
    IN [FailedUnit |-> failedUnit,
        AffectedUnits |-> s2.affected,
        TotalAffected |-> Len(s2.affected),
        CriticalChain |-> LongestCritical(s2.affected, 1, <<>>)]

-----------------------------------------------------------------------------
(* Specification SpecFail: a graph is built edge by edge, then the failure *)
(* of one unit is simulated.                                               *)

MaxFailEdges == 2

FailTypes == {"Requires", "Requisite", "BindsTo", "PartOf", "Wants"}

InitFail ==
    /\ units = NoUnits
    /\ allEdges = <<>>
    /\ registry = NoRules
    /\ registryLock = "unlocked"
    /\ call = NoCall
    /\ mu = NoLock
    /\ tui = NoModel
    /\ files = NoFiles
    /\ config = DefaultConfig
    /\ pc = "build"
    /\ out = <<>>

FailAddEdge ==
    /\ pc = "build"
    /\ Len(allEdges) < MaxFailEdges
    /\ \E f \in Names, t \in Names, ty \in FailTypes :
          allEdges' = AddEdge(allEdges, Edge(f, t, ty))
    /\ UNCHANGED <<units, registry, config, pc, out, registryLock, call, files, tui, mu>>

FailSimulate ==
    /\ pc = "build"
    /\ \E u \in Names :
          out' = <<[op |-> "SimulateFailure", arg |-> u,
                    val |-> SimulateFailure(allEdges, u)]>>
    /\ pc' = "done"
    /\ UNCHANGED <<units, allEdges, registry, config, registryLock, call, files, tui, mu>>

NextFail == FailAddEdge \/ FailSimulate

SpecFail == InitFail /\ [][NextFail]_vars

Spec == SpecFail

\* v reaches u by a path of one or more edges whose type is in Types.
RECURSIVE ReachVia(_, _, _, _)
ReachVia(E, Types, frontier, seen) ==
    LET next == {e.from : e \in {x \in Range(E) : x.to \in frontier /\ x.type \in Types}}
        new == next \ seen
    IN IF new = {} THEN seen
       ELSE ReachVia(E, Types, new, seen \cup new)

Predecessors(E, Types, u) == ReachVia(E, Types, {u}, {})

Reported(res, v, impact) ==
    \E i \in DOMAIN res.AffectedUnits :
        res.AffectedUnits[i].Name = v /\ res.AffectedUnits[i].Impact = impact

\* C1: SimulateFailure(G, u) reports with impact fail_to_start every unit
\* v # u that reaches u by a path of one or more Requires / Requisite /
\* BindsTo edges, also the units two or more edges away.
C1_FailSweepTransitive ==
    pc = "done" =>
        LET r == out[1]
        IN \A v \in Predecessors(allEdges, {"Requires", "Requisite", "BindsTo"}, r.arg) \ {r.arg} :
              Reported(r.val, v, "fail_to_start")

\* C26: on every graph, also when the failed unit lies on a dependency
\* cycle, the result of SimulateFailure does not list the failed unit and
\* lists no unit twice with the same impact.
C26_NoSelfNoDuplicateImpact ==
    pc = "done" =>
        LET affected == out[1].val.AffectedUnits
        IN /\ \A i \in 1..Len(affected) : affected[i].Name # out[1].arg
           /\ \A i, j \in 1..Len(affected) :
                 (affected[i].Name = affected[j].Name
                    /\ affected[i].Impact = affected[j].Impact) => i = j

\* The failed unit lies on a cycle of Requires / Requisite / BindsTo edges
\* through another unit, and the result lists that unit.
C26_Witness ==
    /\ pc = "done"
    /\ \E v \in Names \ {out[1].arg} :
          /\ v \in Predecessors(allEdges, {"Requires", "Requisite", "BindsTo"}, out[1].arg)
          /\ out[1].arg \in Predecessors(allEdges, {"Requires", "Requisite", "BindsTo"}, v)
          /\ Reported(out[1].val, v, "fail_to_start")

\* C2: after the fail sweep a stop sweep reports with impact stop every
\* unit that reaches u through BindsTo / PartOf edges; a unit whose only
\* edge to u is PartOf is reported with impact stop.
C2_StopSweepReports ==
    pc = "done" =>
        LET r == out[1]
        IN \A v \in Predecessors(allEdges, {"BindsTo", "PartOf"}, r.arg) \ {r.arg} :
              Reported(r.val, v, "stop")

-----------------------------------------------------------------------------
(* The unit model (pkg/types/types.go) *)

NoSections == [x \in {} |-> 0]

Directive(v, l) == [Value |-> v, Line |-> l]

UnitFile(name, type, sections) ==
    [Name |-> name, Type |-> type, Sections |-> sections]

\* UnitFile.GetDirective: the first value of a directive, or "".
GetDirective(u, section, key) ==
    IF /\ section \in DOMAIN u.Sections
       /\ key \in DOMAIN u.Sections[section]
       /\ Len(u.Sections[section][key]) > 0
    THEN u.Sections[section][key][1].Value
    ELSE ""

\* UnitFile.GetDirectives: all records of a directive, or none.
GetDirectives(u, section, key) ==
    IF section \in DOMAIN u.Sections /\ key \in DOMAIN u.Sections[section]
    THEN u.Sections[section][key]
    ELSE <<>>

\* UnitFile.HasDirective
HasDirective(u, section, key) ==
    section \in DOMAIN u.Sections /\ key \in DOMAIN u.Sections[section]

-----------------------------------------------------------------------------
(* Sorting helpers *)

RECURSIVE Flatten(_)
Flatten(ss) == IF Len(ss) = 0 THEN <<>> ELSE Head(ss) \o Flatten(Tail(ss))

\* sort.Strings on a set of names: ascending.
RECURSIVE SortNames(_)
SortNames(S) ==
    IF S = {} THEN <<>>
    ELSE LET m == CHOOSE x \in S : \A y \in S : NameOrd(x) <= NameOrd(y)
         IN <<m>> \o SortNames(S \ {m})

\* sort.Slice on a slice of fewer than 12 elements is an insertion sort: the
\* elements come out by ascending key, equal keys in their original order.
\* Key maps an element to a number.
RECURSIVE SortIndices(_, _)
SortIndices(keys, idx) ==
    IF idx = <<>> THEN <<>>
    ELSE LET present == {keys[idx[i]] : i \in 1..Len(idx)}
             m == CHOOSE k \in present : \A l \in present : k <= l
         IN SelectSeq(idx, LAMBDA j : keys[j] = m)
            \o SortIndices(keys, SelectSeq(idx, LAMBDA j : keys[j] # m))

SortByKey(s, Key(_)) ==
    LET p == SortIndices([i \in 1..Len(s) |-> Key(s[i])], [i \in 1..Len(s) |-> i])
    IN [i \in 1..Len(s) |-> s[p[i]]]

-----------------------------------------------------------------------------
(* Cycles (internal/graph/tarjan.go) *)

\* The nodes of the graph: the units added and every edge endpoint.
Nodes(U, E) == DOMAIN U \cup {e.from : e \in Range(E)} \cup {e.to : e \in Range(E)}

RECURSIVE ForwardReach(_, _, _)
ForwardReach(E, frontier, seen) ==
    LET new == {e.to : e \in {x \in Range(E) : x.from \in frontier}} \ seen
    IN IF new = {} THEN seen ELSE ForwardReach(E, new, seen \cup new)

\* topo.TarjanSCC: the strongly connected components of the graph.
TarjanSCC(U, E) ==
    {{v \in Nodes(U, E) : v = u \/ (v \in ForwardReach(E, {u}, {})
                                   /\ u \in ForwardReach(E, {v}, {}))}
        : u \in Nodes(U, E)}

AnyComponent(comp) == Cardinality(comp) >= 1

\* The filter of FindCycles: only components of more than one node.
NonTrivial(comp) == Cardinality(comp) > 1

SCCRecord(E, comp) ==
    LET cycleEdges == SelectSeq(E, LAMBDA e : e.from \in comp /\ e.to \in comp)
    IN [Units |-> SortNames(comp),
        Edges |-> cycleEdges,
        EdgeTypes |-> {e.type : e \in Range(cycleEdges)}]

\* Graph.FindCycles: the components of more than one unit, by first unit.
FindCycles(U, E) ==
    LET big == {c \in TarjanSCC(U, E) : NonTrivial(c)}
        firsts == {SortNames(c)[1] : c \in big}
        order == SortNames(firsts)
    IN [i \in 1..Len(order) |->
          SCCRecord(E, CHOOSE c \in big : SortNames(c)[1] = order[i])]

-----------------------------------------------------------------------------
(* Restart storms (internal/propagation/failure.go, DetectRestartStorms) *)

\* restartUnits: the service units with a Restart= policy other than "no".
RestartUnits(U) ==
    LET S == {n \in DOMAIN U : /\ U[n].Type = "service"
                              /\ GetDirective(U[n], "Service", "Restart") \notin {"", "no"}}
    IN [n \in S |-> GetDirective(U[n], "Service", "Restart")]

\* restartUnits[u] in Go: "" for a missing key.
RestartOf(U, n) == IF n \in DOMAIN RestartUnits(U) THEN RestartUnits(U)[n] ELSE ""

\* bindsTo: unit -> the units it is bound to, in edge order.
BindsToMap(E) ==
    LET B == SelectSeq(E, LAMBDA e : e.type = "BindsTo")
    IN [u \in {e.from : e \in Range(B)} |->
          LET es == SelectSeq(B, LAMBDA e : e.from = u)
          IN [i \in 1..Len(es) |-> es[i].to]]

SeverityOrder(sev) ==
    CASE sev = "critical" -> 0 [] sev = "high" -> 1 [] sev = "medium" -> 2
      [] OTHER -> 3

\* Pattern 1, the (unitA, unitB) pairs at which `boundBack == unitA` holds,
\* in the order the three nested loops meet them; order1 is the order in
\* which the map bindsTo is ranged over.
MutualPairs(bindsTo, order1) ==
    Flatten([i \in 1..Len(order1) |->
        LET unitA == order1[i]
        IN Flatten([j \in 1..Len(bindsTo[unitA]) |->
              LET unitB == bindsTo[unitA][j]
                  back == IF unitB \in DOMAIN bindsTo THEN bindsTo[unitB] ELSE <<>>
                  hits == SelectSeq(back, LAMBDA x : x = unitA)
              IN [k \in 1..Len(hits) |-> <<unitA, unitB>>]])])

PairKey(x, y) == IF NameOrd(y) < NameOrd(x) THEN <<y, x>> ELSE <<x, y>>

RECURSIVE StormPattern1(_, _, _, _, _)
StormPattern1(U, pairs, i, checked, storms) ==
    IF i > Len(pairs) THEN storms
    ELSE
      LET unitA == pairs[i][1]
          unitB == pairs[i][2]
          key == PairKey(unitA, unitB)
          hasRestartA == RestartOf(U, unitA) # ""
          hasRestartB == RestartOf(U, unitB) # ""
          storm == [Units |-> <<unitA, unitB>>,
                    Trigger |-> unitA,
                    Cycle |-> <<unitA, unitB, unitA>>,
                    Severity |-> IF hasRestartA /\ hasRestartB THEN "critical" ELSE "high",
                    Evidence |-> <<Edge(unitA, unitB, "BindsTo"), Edge(unitB, unitA, "BindsTo")>>
                                 \o (IF hasRestartA THEN <<Edge(unitA, unitA, "Requires")>> ELSE <<>>)
                                 \o (IF hasRestartB THEN <<Edge(unitB, unitB, "Requires")>> ELSE <<>>)]
      IN IF key \in checked THEN StormPattern1(U, pairs, i + 1, checked, storms)
         ELSE IF hasRestartA \/ hasRestartB
              THEN StormPattern1(U, pairs, i + 1, checked \cup {key}, Append(storms, storm))
              ELSE StormPattern1(U, pairs, i + 1, checked \cup {key}, storms)

\* Pattern 2: a cycle with a BindsTo edge and a restarting member.
RECURSIVE StormPattern2(_, _, _, _)
StormPattern2(U, cycles, i, storms) ==
    IF i > Len(cycles) THEN storms
    ELSE
      LET scc == cycles[i]
          hasBindsTo == "BindsTo" \in scc.EdgeTypes
          restartUnitsInCycle == SelectSeq(scc.Units, LAMBDA u : RestartOf(U, u) # "")
          hasRestart == Len(restartUnitsInCycle) > 0
          storm == [Units |-> scc.Units,
                    Trigger |-> scc.Units[1],
                    Cycle |-> Append(scc.Units, scc.Units[1]),
                    Severity |-> IF Len(restartUnitsInCycle) > 1 THEN "critical" ELSE "high",
                    Evidence |-> SelectSeq(scc.Edges, LAMBDA e : e.type = "BindsTo")]
      IN IF hasBindsTo /\ hasRestart
         THEN StormPattern2(U, cycles, i + 1, Append(storms, storm))
         ELSE StormPattern2(U, cycles, i + 1, storms)

\* Pattern 3: BindsTo to an aggressively restarting unit; order3 is the
\* order in which the map bindsTo is ranged over the second time.
StormPattern3(U, bindsTo, order3) ==
    Flatten([i \in 1..Len(order3) |->
        LET unitA == order3[i]
        IN Flatten([j \in 1..Len(bindsTo[unitA]) |->
              LET unitB == bindsTo[unitA][j]
                  policy == RestartOf(U, unitB)
              IN IF /\ policy \in {"always", "on-failure", "on-abnormal"}
                    /\ RestartOf(U, unitA) = ""
                 THEN <<[Units |-> <<unitA, unitB>>,
                         Trigger |-> unitB,
                         Cycle |-> <<>>,
                         Severity |-> "medium",
                         Evidence |-> <<Edge(unitA, unitB, "BindsTo"),
                                        Edge(unitB, unitB, "Requires")>>]>>
                 ELSE <<>>])])

CountSeverity(storms, sev) ==
    Len(SelectSeq(storms, LAMBDA x : x.Severity = sev))

DetectRestartStorms(U, E, order1, order3) ==
    LET bindsTo == BindsToMap(E)
        p1 == StormPattern1(U, MutualPairs(bindsTo, order1), 1, {}, <<>>)
        p2 == StormPattern2(U, FindCycles(U, E), 1, p1)
        p3 == p2 \o StormPattern3(U, bindsTo, order3)
        storms == SortByKey(p3, LAMBDA x : SeverityOrder(x.Severity))
    IN [Storms |-> storms,
        TotalStorms |-> Len(storms),
        CriticalCount |-> CountSeverity(storms, "critical"),
        HighCount |-> CountSeverity(storms, "high"),
        MediumCount |-> CountSeverity(storms, "medium")]

-----------------------------------------------------------------------------
(* Specification SpecStorm: a set of service units is loaded, the graph is *)
(* built edge by edge, then the restart storms are detected.               *)

MaxStormEdges == 2

StormTypes == {"BindsTo", "Requires"}

StormPolicies == {"", "no", "on-failure"}

ServiceUnit(name, restart) ==
    UnitFile(name, "service",
             IF restart = "" THEN NoSections
             ELSE "Service" :> ("Restart" :> <<Directive(restart, 1)>>))

InitStorm ==
    /\ \E S \in {{"a", "b"}, {"a", "b", "c"}} :
          \E pol \in [S -> StormPolicies] :
             units = [n \in S |-> ServiceUnit(n, pol[n])]
    /\ allEdges = <<>>
    /\ registry = NoRules
    /\ registryLock = "unlocked"
    /\ call = NoCall
    /\ mu = NoLock
    /\ tui = NoModel
    /\ files = NoFiles
    /\ config = DefaultConfig
    /\ pc = "build"
    /\ out = <<>>

StormAddEdge ==
    /\ pc = "build"
    /\ Len(allEdges) < MaxStormEdges
    /\ \E f \in Names, t \in Names, ty \in StormTypes :
          /\ f # t
          /\ allEdges' = AddEdge(allEdges, Edge(f, t, ty))
    /\ UNCHANGED <<units, registry, config, pc, out, registryLock, call, files, tui, mu>>

StormDetect ==
    /\ pc = "build"
    /\ \E order1 \in Perms(DOMAIN BindsToMap(allEdges)),
          order3 \in Perms(DOMAIN BindsToMap(allEdges)) :
          out' = <<[op |-> "DetectRestartStorms",
                    val |-> DetectRestartStorms(units, allEdges, order1, order3)]>>
    /\ pc' = "done"
    /\ UNCHANGED <<units, allEdges, registry, config, registryLock, call, files, tui, mu>>

NextStorm == StormAddEdge \/ StormDetect

SpecStorm == InitStorm /\ [][NextStorm]_vars

\* C3: for the unit set {a, b}, both services with Restart=on-failure and
\* each with BindsTo to the other, DetectRestartStorms returns exactly one
\* storm; it is critical and holds both units.
C3_MutualBindsToOneStorm ==
    (/\ pc = "done"
     /\ DOMAIN units = {"a", "b"}
     /\ GetDirective(units["a"], "Service", "Restart") = "on-failure"
     /\ GetDirective(units["b"], "Service", "Restart") = "on-failure"
     /\ Range(allEdges) = {Edge("a", "b", "BindsTo"), Edge("b", "a", "BindsTo")}
     /\ Len(allEdges) = 2)
    => LET r == out[1].val
       IN /\ Len(r.Storms) = 1
          /\ r.Storms[1].Severity = "critical"
          /\ {"a", "b"} \subseteq Range(r.Storms[1].Units)

-----------------------------------------------------------------------------
(* The rule engine (package rules) and some rules of the catalog *)

SeverityInfo == 0
SeverityLow == 1
SeverityMedium == 2
SeverityHigh == 3
SeverityCritical == 4

\* The rules of the catalog that the model registers.
RuleIDs == {"BP002", "BP004", "REL001"}

\* The order of rule ids as strings.
RuleOrd(id) == CASE id = "BP002" -> 1 [] id = "BP004" -> 2 [] id = "REL001" -> 3

RuleSeverity(id) ==
    CASE id = "BP002" -> SeverityMedium
      [] id = "BP003" -> SeverityMedium
      [] id = "BP004" -> SeverityInfo
      [] id = "REL002" -> SeverityMedium
      [] id = "REL001" -> SeverityHigh

RuleCategory(id) ==
    CASE id = "BP002" -> "bestpractice"
      [] id = "BP003" -> "bestpractice"
      [] id = "BP004" -> "bestpractice"
      [] id = "REL002" -> "reliability"
      [] id = "REL001" -> "reliability"

RuleTags(id) ==
    CASE id = "BP002" -> {"deprecated"}
      [] id = "BP004" -> {"documentation"}
      [] id = "REL001" -> {"availability", "resilience", "recovery"}

Issue(id, unit, description) ==
    [RuleID |-> id, Severity |-> RuleSeverity(id), Category |-> RuleCategory(id),
     Unit |-> unit.Name, Description |-> description]

\* rules.Context
Context(unit, allUnits, cfg) == [Unit |-> unit, AllUnits |-> allUnits, Config |-> cfg]

IsRuleDisabled(ctx, id) ==
    ctx.Config # NoConfig /\ id \in ctx.Config.DisabledRules

\* BP002.Check ranges over the map unit.Sections and, inside, over the map
\* `deprecated`, and returns at the first directive found; sectionOrder
\* and directiveOrder are the orders of the two ranges.
Deprecated == {"PermissionsStartOnly", "StartLimitInterval"}

DeprecatedText(directive) ==
    IF directive = "PermissionsStartOnly"
    THEN "PermissionsStartOnly is deprecated. Use '+' prefix in ExecStart= instead"
    ELSE "StartLimitInterval is deprecated. Use StartLimitIntervalSec= instead"

BP002Check(ctx, sectionOrder, directiveOrder) ==
    LET unit == ctx.Unit
        found == Flatten([i \in 1..Len(sectionOrder) |->
                    SelectSeq(directiveOrder,
                              LAMBDA d : HasDirective(unit, sectionOrder[i], d))])
    IN IF Len(found) = 0 THEN <<>>
       ELSE <<Issue("BP002", unit, DeprecatedText(found[1]))>>

BP004Check(ctx) ==
    IF GetDirective(ctx.Unit, "Unit", "Documentation") = ""
    THEN <<Issue("BP004", ctx.Unit, "Unit has no Documentation directive.")>>
    ELSE <<>>

REL001Check(ctx) ==
    LET unit == ctx.Unit
    IN IF unit.Type # "service" THEN <<>>
       ELSE IF GetDirective(unit, "Service", "Type") = "oneshot" THEN <<>>
       ELSE IF GetDirective(unit, "Service", "Restart") \in {"", "no"}
            THEN <<Issue("REL001", unit,
                         "Service has no restart policy. It will not recover from crashes.")>>
            ELSE <<>>

\* rule.Check(ctx): the issue lists a call can return.
CheckOutcomes(id, ctx) ==
    CASE id = "BP002" ->
           {BP002Check(ctx, so, do) : so \in Perms(DOMAIN ctx.Unit.Sections),
                                      do \in Perms(Deprecated)}
      [] id = "BP004" -> {BP004Check(ctx)}
      [] id = "REL001" -> {REL001Check(ctx)}

\* A rule object: its id and which of the objects with that id it is.
Rule(id, impl) == [ID |-> id, Impl |-> impl]

\* The rule of the catalog with the given id.
CatalogRule(id) == Rule(id, 1)

\* registry[rule.ID()] = rule
StoreRule(reg, rule) ==
    [id \in DOMAIN reg \cup {rule.ID} |-> IF id = rule.ID THEN rule ELSE reg[id]]

OverwriteOnCollision(reg, rule) == StoreRule(reg, rule)

\* Register on an id that is present: the panic precedes the assignment.
RegistryOnCollision(reg, rule) == reg

\* rules.All: the registered rules by ascending id.
RECURSIVE All(_)
All(reg) ==
    IF reg = {} THEN <<>>
    ELSE LET m == CHOOSE x \in reg : \A y \in reg : RuleOrd(x) <= RuleOrd(y)
         IN <<m>> \o All(reg \ {m})

KeepSeverity(ctx, id, issues) == issues

\* The override loop of RunAll / RunFiltered.
ApplyOverride(ctx, id, issues) ==
    IF ctx.Config # NoConfig /\ id \in DOMAIN ctx.Config.SeverityOverrides
    THEN [i \in 1..Len(issues) |->
            [issues[i] EXCEPT !.Severity = ctx.Config.SeverityOverrides[id]]]
    ELSE issues

\* rules.RunAll: the issue lists a call can return.
RECURSIVE RunAllFrom(_, _, _)
RunAllFrom(rules, i, ctx) ==
    IF i > Len(rules) THEN {<<>>}
    ELSE IF IsRuleDisabled(ctx, rules[i]) THEN RunAllFrom(rules, i + 1, ctx)
    ELSE {ApplyOverride(ctx, rules[i], issues) \o rest :
             issues \in CheckOutcomes(rules[i], ctx),
             rest \in RunAllFrom(rules, i + 1, ctx)}

RunAll(reg, ctx) == RunAllFrom(All(reg), 1, ctx)

-----------------------------------------------------------------------------
(* The analyzer (internal/analyzer/analyzer.go) *)

\* The less function of Scan's sort.Slice as a key: severity descending,
\* then unit name ascending.
IssueKey(issue) == (SeverityCritical - issue.Severity) * 32 + NameOrd(issue.Unit)

\* The issues of one pass over the units in the given order, before the sort.
RECURSIVE ScanIssuesFrom(_, _, _, _, _)
ScanIssuesFrom(reg, U, cfg, order, i) ==
    IF i > Len(order) THEN {<<>>}
    ELSE {issues \o rest :
             issues \in RunAll(reg, Context(U[order[i]], U, cfg)),
             rest \in ScanIssuesFrom(reg, U, cfg, order, i + 1)}

ScanResult(reg, U, issues) ==
    [Units |-> SortNames(DOMAIN U),
     Issues |-> issues,
     Summary |-> [TotalUnits |-> Cardinality(DOMAIN U),
                  TotalIssues |-> Len(issues),
                  RulesChecked |-> Cardinality(reg)]]

\* Analyzer.Scan without filter options: the results a call can return.
Scan(reg, U, cfg) ==
    IF DOMAIN U = {}
    THEN {[Units |-> <<>>, Issues |-> <<>>,
           Summary |-> [TotalUnits |-> 0, TotalIssues |-> 0, RulesChecked |-> 0]]}
    ELSE {ScanResult(reg, U, SortByKey(issues, IssueKey)) :
             issues \in UNION {ScanIssuesFrom(reg, U, cfg, order, 1) :
                                 order \in Perms(DOMAIN U)}}

-----------------------------------------------------------------------------
(* Specification SpecRules: the rules register themselves, then the same  *)
(* operation (RunAll on one context, or a scan of the unit set) is run    *)
(* MaxRuns times.                                                         *)

MaxRuns == 2

\* A unit of the given type, with or without Documentation= and
\* StartLimitInterval= in [Unit], Restart= and PermissionsStartOnly= in
\* [Service].
RuleUnit(name, type, doc, sli, restart, pso) ==
    LET unitKeys == (IF doc THEN {"Documentation"} ELSE {})
                    \cup (IF sli THEN {"StartLimitInterval"} ELSE {})
        serviceKeys == (IF restart THEN {"Restart"} ELSE {})
                       \cup (IF pso THEN {"PermissionsStartOnly"} ELSE {})
        value == [k \in {"Documentation", "StartLimitInterval", "Restart",
                         "PermissionsStartOnly"} |->
                    CASE k = "Documentation" -> "man:x(8)"
                      [] k = "StartLimitInterval" -> "10"
                      [] k = "Restart" -> "on-failure"
                      [] k = "PermissionsStartOnly" -> "true"]
        section(keys) == [k \in keys |-> <<Directive(value[k], 1)>>]
        names == (IF unitKeys # {} THEN {"Unit"} ELSE {})
                 \cup (IF serviceKeys # {} THEN {"Service"} ELSE {})
    IN UnitFile(name, type,
                [s \in names |-> IF s = "Unit" THEN section(unitKeys)
                                 ELSE section(serviceKeys)])

RuleUnitShapes(name) ==
    {RuleUnit(name, type, doc, sli, restart, pso) :
        type \in {"service", "target"}, doc \in BOOLEAN, sli \in BOOLEAN,
        restart \in BOOLEAN, pso \in BOOLEAN}

RuleConfigs ==
    {DefaultConfig,
     [DisabledRules |-> {"BP004"}, SeverityOverrides |-> [r \in {} |-> 0]],
     [DisabledRules |-> {}, SeverityOverrides |-> [r \in {"BP002"} |-> SeverityHigh]]}

InitRules ==
    /\ \E S \in {{"a"}, {"a", "b"}} :
          \E U \in [S -> UNION {RuleUnitShapes(n) : n \in S}] :
             /\ \A n \in S : U[n].Name = n
             /\ units = U
    /\ config \in RuleConfigs
    /\ allEdges = <<>>
    /\ registry = NoRules
    /\ registryLock = "unlocked"
    /\ call = NoCall
    /\ mu = NoLock
    /\ tui = NoModel
    /\ files = NoFiles
    /\ pc = "register"
    /\ out = <<>>

\* rules.Register, called from the init functions of the rule packages.
\* It runs to completion here; SpecRegistry has its steps.
Register ==
    /\ pc = "register"
    /\ \E id \in RuleIDs :
          IF id \in DOMAIN registry
          THEN /\ registry' = RegistryOnCollision(registry, CatalogRule(id))
               /\ pc' = "panic"
          ELSE /\ registry' = StoreRule(registry, CatalogRule(id))
               /\ pc' = pc
    /\ UNCHANGED <<units, allEdges, config, out, registryLock, call, files, tui, mu>>

\* rules.RunAll on the context of one unit.
RulesRunAll ==
    /\ pc \in {"register", "run"}
    /\ Len(out) < MaxRuns
    /\ \E n \in DOMAIN units :
          /\ out # <<>> => out[1].op = "RunAll" /\ out[1].arg = n
          /\ \E issues \in RunAll(DOMAIN registry, Context(units[n], units, config)) :
                out' = Append(out, [op |-> "RunAll", arg |-> n, val |-> issues])
    /\ pc' = "run"
    /\ UNCHANGED <<units, allEdges, registry, config, registryLock, call, files, tui, mu>>

\* Analyzer.Scan over the unit set.
RulesScan ==
    /\ pc \in {"register", "run"}
    /\ Len(out) < MaxRuns
    /\ out # <<>> => out[1].op = "Scan"
    /\ \E res \in Scan(DOMAIN registry, units, config) :
          out' = Append(out, [op |-> "Scan", arg |-> "", val |-> res])
    /\ pc' = "run"
    /\ UNCHANGED <<units, allEdges, registry, config, registryLock, call, files, tui, mu>>

NextRules == Register \/ RulesRunAll \/ RulesScan

SpecRules == InitRules /\ [][NextRules]_vars

\* C4: running RunAll twice on the same context returns identical issue
\* lists: the same issues, with the same field values, in the same order.
C4_RunAllIdempotent ==
    (Len(out) >= 2 /\ out[1].op = "RunAll") => out[2].val = out[1].val

\* C5: two scans of the same unit set with the same configuration return
\* the same issue sequence, element for element.
C5_ScanDeterministic ==
    (Len(out) >= 2 /\ out[1].op = "Scan") => out[2].val.Issues = out[1].val.Issues

-----------------------------------------------------------------------------
(* The graph builder (BuildFromUnits, extractEdges) *)

\* The Go map DirectiveToEdgeType: [Unit] directive -> edge type.
DirectiveToEdgeType ==
    [d \in {"Requires", "Requisite", "Wants", "BindsTo", "PartOf", "Conflicts",
            "After", "Before", "PropagatesReloadTo", "ReloadPropagatedFrom"} |-> d]

\* A directive value is a string; the model keeps it as the sequence of its
\* words and of the blanks between them.  strings.Fields drops the blanks.
splitDirectiveValue(value) == SelectSeq(value, LAMBDA part : part # " ")

addEdgesFromDirective(from, directive, edgeType) ==
    LET targets == splitDirectiveValue(directive.Value)
    IN [i \in 1..Len(targets) |-> Edge(from, targets[i], edgeType)]

\* The reverse edges of an [Install] directive (WantedBy, RequiredBy).
installEdges(unit, key, edgeType) ==
    LET ds == GetDirectives(unit, "Install", key)
    IN Flatten([i \in 1..Len(ds) |->
          LET targets == splitDirectiveValue(ds[i].Value)
          IN [j \in 1..Len(targets) |-> Edge(targets[j], unit.Name, edgeType)]])

\* strings.TrimSuffix(name, "." \o type) \o ".service" for the names of the model.
DefaultService(name) ==
    CASE name = "a.socket" -> "a.service"
      [] OTHER -> "unnamed.service"

\* getSocketService / getTimerService / getPathService
activatedService(unit, section, key) ==
    LET ds == GetDirectives(unit, section, key)
    IN IF Len(ds) > 0 THEN ds[1].Value ELSE DefaultService(unit.Name)

activationEdges(unit) ==
    LET service == CASE unit.Type = "socket" -> activatedService(unit, "Socket", "Service")
                     [] unit.Type = "timer" -> activatedService(unit, "Timer", "Unit")
                     [] unit.Type = "path" -> activatedService(unit, "Path", "Unit")
                     [] OTHER -> ""
    IN IF service # "" THEN <<Edge(unit.Name, service, "TriggeredBy")>> ELSE <<>>

\* The [Unit] directives of a unit that DirectiveToEdgeType maps.
EdgeDirectives(unit) ==
    IF "Unit" \in DOMAIN unit.Sections
    THEN DOMAIN unit.Sections["Unit"] \cap DOMAIN DirectiveToEdgeType
    ELSE {}

\* extractEdges; directiveOrder is the order in which the range over the map
\* DirectiveToEdgeType meets the directives the unit has.
extractEdges(unit, directiveOrder) ==
    Flatten([i \in 1..Len(directiveOrder) |->
        LET ds == GetDirectives(unit, "Unit", directiveOrder[i])
        IN Flatten([j \in 1..Len(ds) |->
              addEdgesFromDirective(unit.Name, ds[j],
                                    DirectiveToEdgeType[directiveOrder[i]])])])
    \o installEdges(unit, "WantedBy", "Wants")
    \o installEdges(unit, "RequiredBy", "Requires")
    \o activationEdges(unit)

\* The map ranges of one build: an order of its edge directives per unit.
BuildOrders(U) ==
    {o \in [DOMAIN U -> UNION {Perms(EdgeDirectives(U[n])) : n \in DOMAIN U}] :
        \A n \in DOMAIN U : o[n] \in Perms(EdgeDirectives(U[n]))}

\* BuildFromUnits: the edge sequence of the built graph.
BuildFromUnits(U, orders) ==
    LET names == SortNames(DOMAIN U)
    IN Flatten([i \in 1..Len(names) |-> extractEdges(U[names[i]], orders[names[i]])])

-----------------------------------------------------------------------------
(* Specification SpecBuild: unit files are loaded, then the graph is built *)
(* from the same unit map MaxBuilds times.                                 *)

MaxBuilds == 2

BuildNames == {"a.service", "a.socket", "b.service"}

BuildValues == {<<"b.service">>, <<"a.service", " ", "b.service">>}

BuildType(name) == IF name = "a.socket" THEN "socket" ELSE "service"

\* A unit with the given values of Requires=, After= and WantedBy=
\* (<<>> for an absent directive).
BuildUnit(name, requires, after, wantedBy) ==
    LET unitKeys == (IF requires # <<>> THEN {"Requires"} ELSE {})
                    \cup (IF after # <<>> THEN {"After"} ELSE {})
        unitSection == [k \in unitKeys |->
                          IF k = "Requires" THEN <<Directive(requires, 1)>>
                          ELSE <<Directive(after, 2)>>]
        installSection == [k \in {"WantedBy"} |-> <<Directive(wantedBy, 3)>>]
        names == (IF unitKeys # {} THEN {"Unit"} ELSE {})
                 \cup (IF wantedBy # <<>> THEN {"Install"} ELSE {})
    IN UnitFile(name, BuildType(name),
                [s \in names |-> IF s = "Unit" THEN unitSection ELSE installSection])

InitBuild ==
    /\ units = NoUnits
    /\ allEdges = <<>>
    /\ registry = NoRules
    /\ registryLock = "unlocked"
    /\ call = NoCall
    /\ mu = NoLock
    /\ tui = NoModel
    /\ files = NoFiles
    /\ config = DefaultConfig
    /\ pc = "load"
    /\ out = <<>>

\* One unit file is parsed and put into the unit map.
LoadUnit ==
    /\ pc = "load"
    /\ \E n \in BuildNames \ DOMAIN units :
       \E requires \in BuildValues \cup {<<>>}, after \in BuildValues \cup {<<>>},
          wantedBy \in {<<>>, <<"m.target">>} :
          units' = [m \in DOMAIN units \cup {n} |->
                      IF m = n THEN BuildUnit(n, requires, after, wantedBy)
                      ELSE units[m]]
    /\ UNCHANGED <<allEdges, registry, config, pc, out, registryLock, call, files, tui, mu>>

\* graph.Build(units)
Build ==
    /\ pc \in {"load", "built"}
    /\ Len(out) < MaxBuilds
    /\ \E orders \in BuildOrders(units) :
          /\ allEdges' = BuildFromUnits(units, orders)
          /\ out' = Append(out, [op |-> "Build", arg |-> "", val |-> allEdges'])
    /\ pc' = "built"
    /\ UNCHANGED <<units, registry, config, registryLock, call, files, tui, mu>>

NextBuild == LoadUnit \/ Build

SpecBuild == InitBuild /\ [][NextBuild]_vars

\* C6: building the graph twice from the same unit map gives the same
\* ordered edge sequence.
C6_BuildDeterministic ==
    Len(out) >= 2 => out[2].val = out[1].val

-----------------------------------------------------------------------------
(* Ordering issues (internal/graph/analysis.go) *)

\* edgeIndex[from:to]: the edge types present between the two endpoints.
EdgeIndex(E, from, to) ==
    {E[i].type : i \in {j \in 1..Len(E) : E[j].from = from /\ E[j].to = to}}

OrderingIssue(edge, issueType) ==
    [Unit |-> edge.from, Related |-> edge.to, IssueType |-> issueType]

\* The less function of the final sort.Slice as a key: Unit, Related, IssueType.
OrderingIssueKey(issue) ==
    (NameOrd(issue.Unit) * 32 + NameOrd(issue.Related)) * 2
    + (IF issue.IssueType = "after_without_requires" THEN 0 ELSE 1)

FindOrderingIssues(E) ==
    LET afterIssues ==
            SelectSeq(E, LAMBDA e :
                /\ e.type = "After"
                /\ ~ \E et \in EdgeIndex(E, e.from, e.to) : IsRequirementEdge(et))
        requiresIssues ==
            SelectSeq(E, LAMBDA e :
                /\ e.type \in {"Requires", "BindsTo"}
                /\ "After" \notin EdgeIndex(E, e.from, e.to))
        issues == [i \in 1..Len(afterIssues) |->
                      OrderingIssue(afterIssues[i], "after_without_requires")]
                  \o [i \in 1..Len(requiresIssues) |->
                      OrderingIssue(requiresIssues[i], "requires_without_after")]
    IN SortByKey(issues, OrderingIssueKey)

-----------------------------------------------------------------------------
(* Specification SpecOrder: edges are added to the graph, then the        *)
(* ordering issues are computed.                                          *)

MaxOrderEdges == 3

OrderNames == {"a", "b"}

OrderTypes == {"After", "Before", "Requires", "Wants"}

InitOrder ==
    /\ units = NoUnits
    /\ allEdges = <<>>
    /\ registry = NoRules
    /\ registryLock = "unlocked"
    /\ call = NoCall
    /\ mu = NoLock
    /\ tui = NoModel
    /\ files = NoFiles
    /\ config = DefaultConfig
    /\ pc = "build"
    /\ out = <<>>

OrderAddEdge ==
    /\ pc = "build"
    /\ Len(allEdges) < MaxOrderEdges
    /\ \E f \in OrderNames, t \in OrderNames, ty \in OrderTypes :
          /\ f # t
          /\ allEdges' = AddEdge(allEdges, Edge(f, t, ty))
    /\ UNCHANGED <<units, registry, config, pc, out, registryLock, call, files, tui, mu>>

OrderFind ==
    /\ pc = "build"
    /\ out' = <<[op |-> "FindOrderingIssues", arg |-> "",
                 val |-> FindOrderingIssues(allEdges)]>>
    /\ pc' = "done"
    /\ UNCHANGED <<units, allEdges, registry, config, registryLock, call, files, tui, mu>>

NextOrder == OrderAddEdge \/ OrderFind

SpecOrder == InitOrder /\ [][NextOrder]_vars

AfterWithoutRequiresCount(issues, from, to) ==
    Len(SelectSeq(issues, LAMBDA i :
            i.Unit = from /\ i.Related = to /\ i.IssueType = "after_without_requires"))

\* C7: for every pair (from, to), FindOrderingIssues reports exactly one
\* after_without_requires issue if an After edge from->to exists and no
\* requirement edge from->to exists, and none otherwise, however often the
\* After edge is present.
C7_OneAfterWithoutRequiresPerPair ==
    pc = "done" =>
        \A f \in OrderNames, t \in OrderNames :
            AfterWithoutRequiresCount(out[1].val, f, t) =
                IF /\ "After" \in EdgeIndex(allEdges, f, t)
                   /\ EdgeIndex(allEdges, f, t)
                        \cap {"Requires", "Requisite", "Wants", "BindsTo"} = {}
                THEN 1 ELSE 0

-----------------------------------------------------------------------------
(* Reachability and timeout deadlocks *)

\* Graph.ReachableFrom(unit, "forward"): breadth-first over the outgoing
\* edges; the start unit is removed from the result, which is sorted.
RECURSIVE ReachableBFS(_, _, _)
ReachableBFS(E, queue, visited) ==
    IF queue = <<>> THEN visited
    ELSE LET edges == EdgesFrom(E, queue[1])
             targets == [i \in 1..Len(edges) |-> edges[i].to]
             \* the targets not yet visited, each once, in edge order
             fresh == SelectSeq([i \in 1..Len(targets) |->
                                   IF /\ targets[i] \notin visited
                                      /\ \A j \in 1..(i - 1) : targets[j] # targets[i]
                                   THEN targets[i] ELSE ""],
                                LAMBDA t : t # "")
         IN ReachableBFS(E, Tail(queue) \o fresh, visited \cup Range(fresh))

ReachableFrom(E, unit) == SortNames(ReachableBFS(E, <<unit>>, {unit}) \ {unit})

TransitiveDependencies(E, unit) == ReachableFrom(E, unit)

DepThreshold == 10
AfterThreshold == 3

TimeoutThresholdsInclusive(depCount, afterCount) ==
    depCount >= DepThreshold /\ afterCount >= AfterThreshold

\* The condition of line 277.
TimeoutThresholds(depCount, afterCount) ==
    depCount > DepThreshold /\ afterCount > AfterThreshold

\* The loop body of DetectTimeoutDeadlocks for one unit.
TimeoutDeadlockOf(U, E, name) ==
    LET jobTimeout == GetDirective(U[name], "Unit", "JobTimeoutSec")
        afterCount == Len(SelectSeq(EdgesFrom(E, name), LAMBDA e : e.type = "After"))
        transDeps == TransitiveDependencies(E, name)
    IN IF jobTimeout = "" THEN <<>>
       ELSE IF TimeoutThresholds(Len(transDeps), afterCount)
            THEN <<[Unit |-> name, Severity |-> "medium",
                    Deps |-> Len(transDeps), After |-> afterCount]>>
            ELSE <<>>

\* DetectTimeoutDeadlocks; order is the order of the range over the units map.
DetectTimeoutDeadlocks(U, E, order) ==
    Flatten([i \in 1..Len(order) |-> TimeoutDeadlockOf(U, E, order[i])])

-----------------------------------------------------------------------------
(* Specification SpecTimeout: unit a gets dependencies one by one, either  *)
(* ordered directly after a new unit or through a chain of requirements,   *)
(* then the timeout deadlocks are detected.                                *)

MaxDeps == 12
MaxAfter == 5

\* A unit whose [Unit] section has JobTimeoutSec= when jobTimeout is not "".
TimeoutUnit(name, jobTimeout) ==
    UnitFile(name, "service",
             IF jobTimeout = "" THEN NoSections
             ELSE [s \in {"Unit"} |-> [k \in {"JobTimeoutSec"} |-> <<Directive(jobTimeout, 1)>>]])

AfterCount(E, name) ==
    Cardinality({i \in 1..Len(E) : E[i].from = name /\ E[i].type = "After"})

InitTimeout ==
    /\ \E S \in {{"a"}, {"a", "b"}} :
          \E jt \in [S -> {"", "30"}] : units = [n \in S |-> TimeoutUnit(n, jt[n])]
    /\ allEdges = <<>>
    /\ registry = NoRules
    /\ registryLock = "unlocked"
    /\ call = NoCall
    /\ mu = NoLock
    /\ tui = NoModel
    /\ files = NoFiles
    /\ config = DefaultConfig
    /\ pc = "build"
    /\ out = <<>>

\* a gets After= on a new unit.
TimeoutAddAfter ==
    /\ pc = "build"
    /\ Len(allEdges) < MaxDeps
    /\ AfterCount(allEdges, "a") < MaxAfter
    /\ allEdges' = AddEdge(allEdges, Edge("a", DepNames[Len(allEdges) + 1], "After"))
    /\ UNCHANGED <<units, registry, config, pc, out, registryLock, call, files, tui, mu>>

\* The unit added last (a at the start) gets Requires= on a new unit.
TimeoutAddRequires ==
    /\ pc = "build"
    /\ Len(allEdges) < MaxDeps
    /\ LET last == IF allEdges = <<>> THEN "a" ELSE allEdges[Len(allEdges)].to
       IN allEdges' = AddEdge(allEdges, Edge(last, DepNames[Len(allEdges) + 1], "Requires"))
    /\ UNCHANGED <<units, registry, config, pc, out, registryLock, call, files, tui, mu>>

TimeoutDetect ==
    /\ pc = "build"
    /\ \E order \in Perms(DOMAIN units) :
          out' = <<[op |-> "DetectTimeoutDeadlocks", arg |-> "",
                    val |-> DetectTimeoutDeadlocks(units, allEdges, order)]>>
    /\ pc' = "done"
    /\ UNCHANGED <<units, allEdges, registry, config, registryLock, call, files, tui, mu>>

NextTimeout == TimeoutAddAfter \/ TimeoutAddRequires \/ TimeoutDetect

SpecTimeout == InitTimeout /\ [][NextTimeout]_vars

JobTimeoutSet(n) ==
    /\ "Unit" \in DOMAIN units[n].Sections
    /\ "JobTimeoutSec" \in DOMAIN units[n].Sections["Unit"]

ForwardDeps(n) == ForwardReach(allEdges, {n}, {n}) \ {n}

TimeoutReports(n) == SelectSeq(out[1].val, LAMBDA d : d.Unit = n)

\* C8 (as the code has it): DetectTimeoutDeadlocks reports a timeout
\* deadlock, of severity medium and once, for exactly the units that have
\* JobTimeoutSec set, more than 10 transitive forward dependencies and more
\* than 3 direct After edges.
C8_TimeoutDeadlockStrictBounds ==
    pc = "done" =>
        \A n \in DOMAIN units :
            IF /\ JobTimeoutSet(n)
               /\ Cardinality(ForwardDeps(n)) > 10
               /\ AfterCount(allEdges, n) > 3
            THEN /\ Len(TimeoutReports(n)) = 1
                 /\ TimeoutReports(n)[1].Severity = "medium"
            ELSE Len(TimeoutReports(n)) = 0

\* A run in which a unit with exactly 11 dependencies and 4 After edges is
\* reported.
C8_Witness ==
    /\ pc = "done"
    /\ JobTimeoutSet("a")
    /\ Cardinality(ForwardDeps("a")) = 11
    /\ AfterCount(allEdges, "a") = 4
    /\ Len(TimeoutReports("a")) = 1

\* C8 (as stated): every unit with JobTimeoutSec set, at least 10 transitive
\* forward dependencies and at least 3 direct After edges is reported.
C8_TimeoutDeadlockInclusiveBounds ==
    pc = "done" =>
        \A n \in DOMAIN units :
            (/\ JobTimeoutSet(n)
             /\ Cardinality(ForwardDeps(n)) >= 10
             /\ AfterCount(allEdges, n) >= 3)
            => Len(TimeoutReports(n)) >= 1

-----------------------------------------------------------------------------
(* Critical paths (package timing, ComputeCriticalPaths) *)

\* Durations are in seconds.
DefaultTimeoutStartSec == 90

\* The zero value of CriticalPath.
NoPath == [Unit |-> "", TotalTime |-> 0, Path |-> <<>>, Bottleneck |-> ""]

\* afterDeps[unit]: the targets of the After edges of unit, in edge order.
AfterDeps(E, unit) ==
    LET edges == SelectSeq(E, LAMBDA e : e.type = "After" /\ e.from = unit)
    IN [i \in 1..Len(edges) |-> edges[i].to]

\* timeouts[unit].TimeoutStartSec, or the default for a unit without entry.
TimeoutOf(timeouts, unit) ==
    IF unit \in DOMAIN timeouts THEN timeouts[unit] ELSE DefaultTimeoutStartSec

ShorterDep(depPath, longestDep) == depPath.TotalTime < longestDep.TotalTime

\* The comparison of line 77.
LongerDep(depPath, longestDep) == depPath.TotalTime > longestDep.TotalTime

\* The bottleneck loop: the first node with the largest positive timeout.
RECURSIVE BottleneckFrom(_, _, _, _)
BottleneckFrom(path, i, maxTimeout, bottleneck) ==
    IF i > Len(path) THEN bottleneck
    ELSE IF path[i].Timeout > maxTimeout
         THEN BottleneckFrom(path, i + 1, path[i].Timeout, path[i].Unit)
         ELSE BottleneckFrom(path, i + 1, maxTimeout, bottleneck)

\* computePath(unit, visited) with the memo table threaded through: the
\* result is [path, memo].  longestDeps is the loop over afterDeps[unit].
RECURSIVE computePath(_, _, _, _, _)
RECURSIVE longestDeps(_, _, _, _, _, _, _)
computePath(E, timeouts, memo, unit, visited) ==
    IF unit \in DOMAIN memo THEN [path |-> memo[unit], memo |-> memo]
    ELSE IF unit \in visited
         THEN [path |-> [NoPath EXCEPT !.Unit = unit], memo |-> memo]
    ELSE LET timeout == TimeoutOf(timeouts, unit)
             r == longestDeps(E, timeouts, memo, AfterDeps(E, unit), 1,
                              visited \cup {unit}, NoPath)
             longestDep == r.path
             total == longestDep.TotalTime + timeout
             nodes == Append(longestDep.Path,
                             [Unit |-> unit, Timeout |-> timeout, Cumulative |-> total])
             path == [Unit |-> unit, TotalTime |-> total, Path |-> nodes,
                      Bottleneck |-> BottleneckFrom(nodes, 1, 0, "")]
         IN [path |-> path,
             memo |-> [u \in DOMAIN r.memo \cup {unit} |->
                          IF u = unit THEN path ELSE r.memo[u]]]

longestDeps(E, timeouts, memo, deps, i, visited, longestDep) ==
    IF i > Len(deps) THEN [path |-> longestDep, memo |-> memo]
    ELSE LET r == computePath(E, timeouts, memo, deps[i], visited)
         IN longestDeps(E, timeouts, r.memo, deps, i + 1, visited,
                        IF LongerDep(r.path, longestDep) THEN r.path ELSE longestDep)

\* The loop over g.Units(): [Paths, LongestPath, memo].
RECURSIVE computeAll(_, _, _, _, _)
computeAll(E, timeouts, order, i, acc) ==
    IF i > Len(order) THEN acc
    ELSE LET r == computePath(E, timeouts, acc.memo, order[i], {})
         IN computeAll(E, timeouts, order, i + 1,
               [Paths |-> [u \in DOMAIN acc.Paths \cup {order[i]} |->
                             IF u = order[i] THEN r.path ELSE acc.Paths[u]],
                LongestPath |-> IF r.path.TotalTime > acc.LongestPath.TotalTime
                                THEN r.path ELSE acc.LongestPath,
                memo |-> r.memo])

\* bottleneckCount: how many paths have the unit as bottleneck.
BottleneckCount(Paths) ==
    [b \in {Paths[u].Bottleneck : u \in DOMAIN Paths} \ {""} |->
        Cardinality({u \in DOMAIN Paths : Paths[u].Bottleneck = b})]

\* ComputeCriticalPaths; unitOrder is the order of g.Units(), countOrder the
\* order of the range over the map bottleneckCount.
ComputeCriticalPaths(E, timeouts, unitOrder, countOrder) ==
    LET r == computeAll(E, timeouts, unitOrder, 1,
                        [Paths |-> NoUnits, LongestPath |-> NoPath, memo |-> NoUnits])
        counts == BottleneckCount(r.Paths)
    IN [Paths |-> r.Paths,
        LongestPath |-> r.LongestPath,
        BottleneckUnits |-> SortByKey(countOrder, LAMBDA b : 0 - counts[b])]

-----------------------------------------------------------------------------
(* Timeout extraction (ParseDuration, ParseTimeouts) *)

\* ParseDuration on the directive values of the model: the special values
\* give 0, a plain number is a number of seconds (strconv.ParseFloat takes
\* a sign), "5min" is a time span, "abc" is an error.
ParseDuration(value) ==
    CASE value \in {"", "infinity", "0"} -> [d |-> 0, err |-> FALSE]
      [] value = "30" -> [d |-> 30, err |-> FALSE]
      [] value = "-5" -> [d |-> 0 - 5, err |-> FALSE]
      [] value = "5min" -> [d |-> 300, err |-> FALSE]
      [] OTHER -> [d |-> 0, err |-> TRUE]

\* The TimeoutStartSec field of ParseTimeouts(unit, nil).
ParseTimeoutStartSec(unit) ==
    LET start == GetDirective(unit, "Service", "TimeoutStartSec")
        both == GetDirective(unit, "Service", "TimeoutSec")
        afterStart == IF start # "" /\ ~ParseDuration(start).err
                      THEN ParseDuration(start).d ELSE DefaultTimeoutStartSec
    IN IF both # "" /\ ~ParseDuration(both).err THEN ParseDuration(both).d
       ELSE afterStart

\* ParseAllTimeouts, reduced to TimeoutStartSec.
ParseAllTimeouts(U) == [n \in DOMAIN U |-> ParseTimeoutStartSec(U[n])]

-----------------------------------------------------------------------------
(* Specification SpecCrit: service units with or without TimeoutStartSec=  *)
(* are loaded, After edges are added, then the critical paths are computed.*)

MaxCritEdges == 3

CritValues == {"", "30", "-5"}

\* A service unit whose [Service] section has TimeoutStartSec= when value
\* is not "".
CritUnit(name, value) ==
    UnitFile(name, "service",
             IF value = "" THEN NoSections
             ELSE [s \in {"Service"} |->
                     [k \in {"TimeoutStartSec"} |-> <<Directive(value, 1)>>]])

InitCrit ==
    /\ \E S \in {{"a", "b"}, {"a", "b", "c"}} :
          \E v \in [S -> CritValues] : units = [n \in S |-> CritUnit(n, v[n])]
    /\ allEdges = <<>>
    /\ registry = NoRules
    /\ registryLock = "unlocked"
    /\ call = NoCall
    /\ mu = NoLock
    /\ tui = NoModel
    /\ files = NoFiles
    /\ config = DefaultConfig
    /\ pc = "build"
    /\ out = <<>>

CritAddEdge ==
    /\ pc = "build"
    /\ Len(allEdges) < MaxCritEdges
    /\ \E f \in Names, t \in Names :
          /\ f # t
          /\ allEdges' = AddEdge(allEdges, Edge(f, t, "After"))
    /\ UNCHANGED <<units, registry, config, pc, out, registryLock, call, files, tui, mu>>

CritCompute ==
    /\ pc = "build"
    /\ \E unitOrder \in Perms(DOMAIN units) :
          LET timeouts == ParseAllTimeouts(units)
              paths == computeAll(allEdges, timeouts, unitOrder, 1,
                          [Paths |-> NoUnits, LongestPath |-> NoPath,
                           memo |-> NoUnits]).Paths
          IN \E countOrder \in Perms(DOMAIN BottleneckCount(paths)) :
                out' = <<[op |-> "ComputeCriticalPaths", arg |-> unitOrder,
                          val |-> ComputeCriticalPaths(allEdges, timeouts,
                                                       unitOrder, countOrder)]>>
    /\ pc' = "done"
    /\ UNCHANGED <<units, allEdges, registry, config, registryLock, call, files, tui, mu>>

NextCrit == CritAddEdge \/ CritCompute

SpecCrit == InitCrit /\ [][NextCrit]_vars

\* The units on a cycle of After edges.
OnAfterCycle(n) == n \in ForwardReach(allEdges, {n}, {})

AfterAcyclic == \A n \in Names : ~OnAfterCycle(n)

\* C9: when the After subgraph has a cycle, every unit on the cycle gets a
\* zero-cost critical path (total time 0, empty path), whichever unit is
\* computed first.
C9_CycleMembersZeroCost ==
    pc = "done" =>
        \A n \in DOMAIN units :
            OnAfterCycle(n) =>
                /\ out[1].val.Paths[n].TotalTime = 0
                /\ out[1].val.Paths[n].Path = <<>>

\* TimeoutStartSec(u): the parsed value of a unit, the default for a node
\* without unit file.
TimeoutStartSec(n) ==
    IF n \in DOMAIN units THEN ParseTimeoutStartSec(units[n])
    ELSE DefaultTimeoutStartSec

AfterTargets(n) == {allEdges[i].to : i \in {j \in 1..Len(allEdges) : allEdges[j].from = n}}

SetMax(S) == CHOOSE x \in S : \A y \in S : y <= x

\* total_time by the recurrence with the maximum taken over the
\* dependencies and 0.
RECURSIVE TotalFloor(_)
TotalFloor(n) ==
    TimeoutStartSec(n) + SetMax({0} \cup {TotalFloor(d) : d \in AfterTargets(n)})

\* total_time by the recurrence with the maximum taken over the
\* dependencies alone (0 without dependencies).
RECURSIVE TotalPlain(_)
TotalPlain(n) ==
    TimeoutStartSec(n)
    + (IF AfterTargets(n) = {} THEN 0
       ELSE SetMax({TotalPlain(d) : d \in AfterTargets(n)}))

PathEndsWithSelf(p, n) ==
    /\ Len(p.Path) >= 1
    /\ p.Path[Len(p.Path)].Unit = n
    /\ p.Path[Len(p.Path)].Cumulative = p.TotalTime

\* C10 (as the code has it): when the After subgraph is acyclic, for every
\* unit u, total_time(u) = TimeoutStartSec(u) + the maximum of 0 and of
\* total_time(d) over the units d that u is ordered after, and u's path ends
\* with u itself with cumulative equal to total_time(u).
C10_TotalTimeRecurrenceFloor ==
    (pc = "done" /\ AfterAcyclic) =>
        \A n \in DOMAIN units :
            /\ out[1].val.Paths[n].TotalTime = TotalFloor(n)
            /\ PathEndsWithSelf(out[1].val.Paths[n], n)

\* A run on an acyclic chain of three units whose first unit has a path of
\* three nodes.
C10_Witness ==
    /\ pc = "done"
    /\ AfterAcyclic
    /\ \E n \in DOMAIN units :
          /\ Len(out[1].val.Paths[n].Path) = 3
          /\ out[1].val.Paths[n].TotalTime = TotalFloor(n)

\* C10 (as stated): the maximum is taken over the dependencies alone.
C10_TotalTimeRecurrence ==
    (pc = "done" /\ AfterAcyclic) =>
        \A n \in DOMAIN units :
            /\ out[1].val.Paths[n].TotalTime = TotalPlain(n)
            /\ PathEndsWithSelf(out[1].val.Paths[n], n)

-----------------------------------------------------------------------------
(* Specification SpecCycle: edges are added to the graph, then the cycles *)
(* are computed.                                                          *)

MaxCycleEdges == 4

CycleNames == {"a", "b", "c", "d"}

\* Graph.HasCycles
HasCycles(U, E) == Len(FindCycles(U, E)) > 0

InitCycle ==
    /\ units = NoUnits
    /\ allEdges = <<>>
    /\ registry = NoRules
    /\ registryLock = "unlocked"
    /\ call = NoCall
    /\ mu = NoLock
    /\ tui = NoModel
    /\ files = NoFiles
    /\ config = DefaultConfig
    /\ pc = "build"
    /\ out = <<>>

\* The edges of the runs: any edge between two of a, b, c, the edges between
\* c and d, and the edge from a to itself.
CyclePairs ==
    {p \in CycleNames \X CycleNames :
        \/ p[1] # p[2] /\ "d" \notin {p[1], p[2]}
        \/ {p[1], p[2]} = {"c", "d"}
        \/ p = <<"a", "a">>}

CycleAddEdge ==
    /\ pc = "build"
    /\ Len(allEdges) < MaxCycleEdges
    /\ \E f \in CycleNames, t \in CycleNames :
          /\ <<f, t>> \in CyclePairs
          /\ allEdges' = AddEdge(allEdges, Edge(f, t, "Requires"))
    /\ UNCHANGED <<units, registry, config, pc, out, registryLock, call, files, tui, mu>>

CycleFind ==
    /\ pc = "build"
    /\ out' = <<[op |-> "FindCycles", arg |-> "",
                 val |-> [Cycles |-> FindCycles(units, allEdges),
                          HasCycles |-> HasCycles(units, allEdges)]]>>
    /\ pc' = "done"
    /\ UNCHANGED <<units, allEdges, registry, config, registryLock, call, files, tui, mu>>

NextCycle == CycleAddEdge \/ CycleFind

SpecCycle == InitCycle /\ [][NextCycle]_vars

\* Every unit of S reaches every other unit of S along edges.
MutuallyReachable(S) ==
    \A u \in S, v \in S : u # v => v \in ForwardReach(allEdges, {u}, {})

\* The strongly connected components of more than one unit.
CycleComponents ==
    {S \in SUBSET Nodes(units, allEdges) :
        /\ Cardinality(S) > 1
        /\ MutuallyReachable(S)
        /\ \A T \in SUBSET Nodes(units, allEdges) :
              (S \subseteq T /\ MutuallyReachable(T)) => T = S}

\* C11: HasCycles is true if and only if the graph has a strongly connected
\* component of more than one unit, and FindCycles returns exactly those
\* components, each once.
C11_CyclesAreTheNonTrivialSCCs ==
    pc = "done" =>
        LET r == out[1].val
        IN /\ r.HasCycles <=> CycleComponents # {}
           /\ {Range(r.Cycles[i].Units) : i \in 1..Len(r.Cycles)} = CycleComponents
           /\ Len(r.Cycles) = Cardinality(CycleComponents)
           /\ \A i \in 1..Len(r.Cycles) :
                 Len(r.Cycles[i].Units) = Cardinality(Range(r.Cycles[i].Units))

\* A run on a graph with two separate cycles.
C11_Witness ==
    /\ pc = "done"
    /\ out[1].val.HasCycles
    /\ Len(out[1].val.Cycles) = 2

-----------------------------------------------------------------------------
(* Dangling references (internal/graph/analysis.go) *)

NodeExists(U, E, name) == name \in Nodes(U, E)

\* The test of line 27: the target has a parsed unit file, not just a node.
UnitExists(U, E, name) == name \in DOMAIN U

danglingRefSeverityOrder(et) ==
    CASE et \in {"Requires", "Requisite", "BindsTo"} -> 0
      [] et = "Wants" -> 1
      [] et \in {"After", "Before"} -> 2
      [] OTHER -> 3

\* DanglingRef.Severity
DanglingSeverity(et) ==
    CASE et \in {"Requires", "Requisite", "BindsTo"} -> "high"
      [] et = "Wants" -> "medium"
      [] et \in {"After", "Before"} -> "low"
      [] OTHER -> "info"

\* The less function of the sort.Slice as a key: severity order, From, To.
DanglingKey(d) ==
    (danglingRefSeverityOrder(d.EdgeType) * 32 + NameOrd(d.From)) * 32 + NameOrd(d.To)

\* Graph.FindDanglingRefs; each entry carries the value of its Severity().
FindDanglingRefs(U, E) ==
    LET missing == SelectSeq(E, LAMBDA e : ~UnitExists(U, E, e.to))
        dangling == [i \in 1..Len(missing) |->
                       [From |-> missing[i].from, To |-> missing[i].to,
                        EdgeType |-> missing[i].type,
                        Severity |-> DanglingSeverity(missing[i].type)]]
    IN SortByKey(dangling, DanglingKey)

-----------------------------------------------------------------------------
(* Specification SpecGraph: unit files are loaded, edges are added, then   *)
(* one graph analysis is run.                                              *)

MaxGraphEdges == 2

GraphNames == {"a", "b", "t.target"}

GraphTypes == {"Requires", "Wants", "After", "TriggeredBy"}

GraphUnit(name) ==
    UnitFile(name, IF name = "t.target" THEN "target" ELSE "service", NoSections)

InitGraph ==
    /\ \E S \in SUBSET GraphNames : units = [n \in S |-> GraphUnit(n)]
    /\ allEdges = <<>>
    /\ registry = NoRules
    /\ registryLock = "unlocked"
    /\ call = NoCall
    /\ mu = NoLock
    /\ tui = NoModel
    /\ files = NoFiles
    /\ config = DefaultConfig
    /\ pc = "build"
    /\ out = <<>>

GraphAddEdge ==
    /\ pc = "build"
    /\ Len(allEdges) < MaxGraphEdges
    /\ \E f \in GraphNames, t \in GraphNames, ty \in GraphTypes :
          /\ f # t
          /\ allEdges' = AddEdge(allEdges, Edge(f, t, ty))
    /\ UNCHANGED <<units, registry, config, pc, out, registryLock, call, files, tui, mu>>

GraphDangling ==
    /\ pc = "build"
    /\ out' = <<[op |-> "FindDanglingRefs", arg |-> "",
                 val |-> FindDanglingRefs(units, allEdges)]>>
    /\ pc' = "done"
    /\ UNCHANGED <<units, allEdges, registry, config, registryLock, call, files, tui, mu>>

DanglingCount(refs, e) ==
    Len(SelectSeq(refs, LAMBDA d : d.From = e.from /\ d.To = e.to /\ d.EdgeType = e.type))

EdgeCount(e) == Len(SelectSeq(allEdges, LAMBDA x : x = e))

\* C12: FindDanglingRefs returns one entry for every edge whose target has
\* no unit record and no entry for any other edge; the severity of an entry
\* is high for Requires/Requisite/BindsTo, medium for Wants, low for
\* After/Before and info otherwise.
C12_DanglingRefsExact ==
    (pc = "done" /\ out[1].op = "FindDanglingRefs") =>
        LET refs == out[1].val
        IN /\ \A f \in GraphNames, t \in GraphNames, ty \in GraphTypes :
                 DanglingCount(refs, Edge(f, t, ty)) =
                    IF t \in DOMAIN units THEN 0 ELSE EdgeCount(Edge(f, t, ty))
           /\ Len(refs) = Cardinality({i \in 1..Len(allEdges) :
                                          allEdges[i].to \notin DOMAIN units})
           /\ \A i \in 1..Len(refs) :
                 refs[i].Severity =
                    IF refs[i].EdgeType \in {"Requires", "Requisite", "BindsTo"} THEN "high"
                    ELSE IF refs[i].EdgeType = "Wants" THEN "medium"
                    ELSE IF refs[i].EdgeType \in {"After", "Before"} THEN "low"
                    ELSE "info"

\* A run with an edge to a node without unit file and an edge to a loaded
\* unit: only the first is reported.
C12_Witness ==
    /\ pc = "done"
    /\ out[1].op = "FindDanglingRefs"
    /\ Len(allEdges) = 2
    /\ Len(out[1].val) = 1
    /\ out[1].val[1].To \notin DOMAIN units
    /\ out[1].val[1].To \in Nodes(units, allEdges)

-----------------------------------------------------------------------------
(* System reachability (Graph.AnalyzeReachability) *)

\* strings.HasSuffix(name, ".target") on the names of the model.
IsTargetName(name) == name \in {"t.target", "m.target"}

FollowsRequirementOnly(ty) == IsRequirementEdge(ty)

\* The edge filter of lines 305 and 315.
FollowsEdge(ty) == IsRequirementEdge(ty) \/ ty = "TriggeredBy"

\* Appends to the queue the names of the sequence not yet visited.
RECURSIVE Enqueue(_, _, _)
Enqueue(names, i, st) ==
    IF i > Len(names) THEN st
    ELSE IF names[i] \in st.visited THEN Enqueue(names, i + 1, st)
    ELSE Enqueue(names, i + 1, [visited |-> st.visited \cup {names[i]},
                                queue |-> Append(st.queue, names[i])])

\* The walk of lines 298-322: incoming edges backward, then outgoing edges
\* forward, of the head of the queue.
RECURSIVE TargetWalk(_, _)
TargetWalk(E, st) ==
    IF st.queue = <<>> THEN st.visited
    ELSE LET current == st.queue[1]
             incoming == SelectSeq(EdgesTo(E, current), LAMBDA e : FollowsEdge(e.type))
             outgoing == SelectSeq(EdgesFrom(E, current), LAMBDA e : FollowsEdge(e.type))
             s0 == [visited |-> st.visited, queue |-> Tail(st.queue)]
             s1 == Enqueue([i \in 1..Len(incoming) |-> incoming[i].from], 1, s0)
             s2 == Enqueue([i \in 1..Len(outgoing) |-> outgoing[i].to], 1, s1)
         IN TargetWalk(E, s2)

AnalyzeReachability(U, E) ==
    LET targets == SortNames({n \in DOMAIN U : U[n].Type = "target"}
                             \cup {n \in Nodes(U, E) : IsTargetName(n)})
        visited == TargetWalk(E, Enqueue(targets, 1, [visited |-> {}, queue |-> <<>>]))
    IN [Reachable |-> SortNames({n \in DOMAIN U : n \in visited}),
        Unreachable |-> SortNames({n \in DOMAIN U : n \notin visited}),
        Targets |-> targets]

GraphReachability ==
    /\ pc = "build"
    /\ out' = <<[op |-> "AnalyzeReachability", arg |-> "",
                 val |-> AnalyzeReachability(units, allEdges)]>>
    /\ pc' = "done"
    /\ UNCHANGED <<units, allEdges, registry, config, registryLock, call, files, tui, mu>>

NextGraph == GraphAddEdge \/ GraphDangling \/ GraphReachability

SpecGraph == InitGraph /\ [][NextGraph]_vars

\* The target roots: the units of type target and the nodes named *.target.
TargetRoots ==
    {n \in DOMAIN units : units[n].Type = "target"}
    \cup ({"t.target"} \cap Nodes(units, allEdges))

\* The nodes joined to S by requirement or TriggeredBy edges, in either
\* direction.
RECURSIVE Connected(_)
Connected(S) ==
    LET links == {e \in Range(allEdges) :
                    e.type \in {"Requires", "Requisite", "Wants", "BindsTo", "TriggeredBy"}}
        next == S \cup {e.to : e \in {x \in links : x.from \in S}}
                  \cup {e.from : e \in {x \in links : x.to \in S}}
    IN IF next = S THEN S ELSE Connected(next)

\* C13: a unit is reported reachable if and only if it is a target root or
\* is connected to a target root by requirement or TriggeredBy edges taken in
\* either direction; every unit with a record is in exactly one of the lists
\* reachable and unreachable.
C13_ReachableIffConnectedToTarget ==
    (pc = "done" /\ out[1].op = "AnalyzeReachability") =>
        LET r == out[1].val
        IN /\ Range(r.Reachable) = DOMAIN units \cap Connected(TargetRoots)
           /\ Range(r.Unreachable) = DOMAIN units \ Connected(TargetRoots)
           /\ Len(r.Reachable) + Len(r.Unreachable) = Cardinality(DOMAIN units)

\* A run in which a service is reachable through a TriggeredBy edge taken
\* backward and another unit is unreachable.
C13_Witness ==
    /\ pc = "done"
    /\ out[1].op = "AnalyzeReachability"
    /\ Edge("a", "t.target", "TriggeredBy") \in Range(allEdges)
    /\ Len(allEdges) = 1
    /\ out[1].val.Reachable = <<"a", "t.target">>
    /\ out[1].val.Unreachable = <<"b">>

-----------------------------------------------------------------------------
(* Properties of the rule engine under SpecRules *)

\* The issue lists rule id can contribute to a run on unit n: those of its
\* Check when the rule is registered and not disabled, with the severity
\* replaced when the configuration overrides it.
Contribution(id, n) ==
    IF id \notin DOMAIN registry \/ id \in config.DisabledRules THEN {<<>>}
    ELSE {[i \in 1..Len(issues) |->
             IF id \in DOMAIN config.SeverityOverrides
             THEN [issues[i] EXCEPT !.Severity = config.SeverityOverrides[id]]
             ELSE issues[i]] :
          issues \in CheckOutcomes(id, Context(units[n], units, config))}

\* C14: the result of RunAll is the concatenation, by ascending rule id, of
\* the issues of every registered rule that is not disabled, the severity of
\* each issue replaced by the override configured for its rule, if any.
C14_RunAllConcatenation ==
    \A k \in 1..Len(out) :
        out[k].op = "RunAll" =>
            out[k].val \in {x \o y \o z : x \in Contribution("BP002", out[k].arg),
                                          y \in Contribution("BP004", out[k].arg),
                                          z \in Contribution("REL001", out[k].arg)}

\* A run of all three rules in which BP002's issue carries the overridden
\* severity and is followed by the issues of BP004 and REL001.
C14_Witness ==
    /\ Len(out) >= 1
    /\ out[1].op = "RunAll"
    /\ DOMAIN registry = RuleIDs
    /\ "BP002" \in DOMAIN config.SeverityOverrides
    /\ Len(out[1].val) = 3
    /\ out[1].val[1].RuleID = "BP002"
    /\ out[1].val[1].Severity = SeverityHigh
    /\ out[1].val[2].RuleID = "BP004"
    /\ out[1].val[3].RuleID = "REL001"

-----------------------------------------------------------------------------
(* Specification SpecRegistry: the steps of Register, All and RunAll with   *)
(* the registry lock.  `out` is the log of the run: the operations begun,   *)
(* the calls of rule methods with the state of the lock at the call, and    *)
(* the assignments to the registry.                                         *)

MaxRegistryOps == 3

RegistryRules == {Rule(id, impl) : id \in {"BP002", "BP004"}, impl \in {1, 2}}

Began == Len(SelectSeq(out, LAMBDA e : e.val = "begin"))

\* The log entry of a call of a method of a rule.
MethodCall(method, rule) == [op |-> method, arg |-> rule, val |-> registryLock]

InitRegistry ==
    /\ units = NoUnits
    /\ allEdges = <<>>
    /\ registry = NoRules
    /\ registryLock = "unlocked"
    /\ call = NoCall
    /\ mu = NoLock
    /\ tui = NoModel
    /\ files = NoFiles
    /\ config = DefaultConfig
    /\ pc = "idle"
    /\ out = <<>>

\* Register, line 17: registryLock.Lock(), with the unlock deferred.
RegisterLock ==
    /\ pc = "idle"
    /\ Began < MaxRegistryOps
    /\ registryLock = "unlocked"
    /\ \E rule \in RegistryRules :
          /\ call' = [op |-> "Register", rule |-> rule]
          /\ out' = Append(out, [op |-> "Register", arg |-> rule, val |-> "begin"])
    /\ registryLock' = "locked"
    /\ pc' = "Register:20"
    /\ UNCHANGED <<units, allEdges, registry, config, files, tui, mu>>

\* Register, line 20: registry[rule.ID()] is looked up.
RegisterLookup ==
    /\ pc = "Register:20"
    /\ out' = Append(out, MethodCall("ID", call.rule))
    /\ pc' = IF call.rule.ID \in DOMAIN registry THEN "Register:21" ELSE "Register:23"
    /\ UNCHANGED <<units, allEdges, registry, registryLock, call, config, files, tui, mu>>

\* Register, line 21: panic("rule already registered: " + rule.ID()).
RegisterPanic ==
    /\ pc = "Register:21"
    /\ out' = Append(out, MethodCall("ID", call.rule))
    /\ registry' = RegistryOnCollision(registry, call.rule)
    /\ pc' = "Register:unwind"
    /\ UNCHANGED <<units, allEdges, registryLock, call, config, files, tui, mu>>

\* Register, line 23: registry[rule.ID()] = rule.
RegisterStore ==
    /\ pc = "Register:23"
    /\ out' = out \o <<MethodCall("ID", call.rule),
                       [op |-> "store", arg |-> call.rule, val |-> call.rule.ID]>>
    /\ registry' = StoreRule(registry, call.rule)
    /\ pc' = "Register:return"
    /\ UNCHANGED <<units, allEdges, registryLock, call, config, files, tui, mu>>

\* The deferred registryLock.Unlock(), on return and while a panic unwinds.
RegisterUnlock ==
    /\ pc \in {"Register:return", "Register:unwind"}
    /\ registryLock' = "unlocked"
    /\ pc' = IF pc = "Register:unwind" THEN "panic" ELSE "idle"
    /\ UNCHANGED <<units, allEdges, registry, call, config, out, files, tui, mu>>

\* All, line 35, called directly or at line 61 of RunAll:
\* registryLock.RLock(), with the unlock deferred.
AllRLock ==
    /\ pc = "idle"
    /\ Began < MaxRegistryOps
    /\ registryLock = "unlocked"
    /\ \E op \in {"All", "RunAll"} :
          /\ call' = [op |-> op, rule |-> ""]
          /\ out' = Append(out, [op |-> op, arg |-> "", val |-> "begin"])
    /\ registryLock' = "rlocked"
    /\ pc' = "All:38"
    /\ UNCHANGED <<units, allEdges, registry, config, files, tui, mu>>

\* All, lines 38-45: the rules are collected and sorted; the less function
\* of sort.Slice calls ID() on the rules when there are two or more.
AllSort ==
    /\ pc = "All:38"
    /\ LET ids == All(DOMAIN registry)
       IN out' = out \o (IF Len(ids) < 2 THEN <<>>
                         ELSE [i \in 1..Len(ids) |-> MethodCall("ID", registry[ids[i]])])
    /\ pc' = "All:return"
    /\ UNCHANGED <<units, allEdges, registry, registryLock, call, config, files, tui, mu>>

\* The deferred registryLock.RUnlock().
AllRUnlock ==
    /\ pc = "All:return"
    /\ registryLock' = "unlocked"
    /\ pc' = IF call.op = "RunAll" THEN "RunAll:61" ELSE "idle"
    /\ UNCHANGED <<units, allEdges, registry, call, config, out, files, tui, mu>>

\* RunAll, lines 61-75: for every rule, ID() for IsRuleDisabled, Check, and
\* ID() for GetSeverityOverride when Check returned issues.
RunAllRules ==
    /\ pc = "RunAll:61"
    /\ LET ids == All(DOMAIN registry)
       IN out' = out \o Flatten([i \in 1..Len(ids) |->
                    <<MethodCall("ID", registry[ids[i]]),
                      MethodCall("Check", registry[ids[i]])>>])
    /\ pc' = "idle"
    /\ UNCHANGED <<units, allEdges, registry, registryLock, call, config, files, tui, mu>>

NextRegistry ==
    \/ RegisterLock \/ RegisterLookup \/ RegisterPanic \/ RegisterStore
    \/ RegisterUnlock \/ AllRLock \/ AllSort \/ AllRUnlock \/ RunAllRules

SpecRegistry == InitRegistry /\ [][NextRegistry]_vars

\* The rules assigned to the registry under the id, in the order of the log.
Stored(id) == SelectSeq(out, LAMBDA e : e.op = "store" /\ e.val = id)

\* C15: registering a rule whose id is present panics; afterwards the
\* registry still maps the id to the rule registered first, its size is
\* unchanged and the registry lock is released.
C15_DuplicateRegisterPanics ==
    /\ (pc \in {"Register:21", "Register:unwind", "panic"}) <=>
          (call.op = "Register" /\ Len(Stored(call.rule.ID)) >= 1
           /\ pc \notin {"Register:20", "Register:return", "idle"})
    /\ pc = "panic" =>
          /\ registryLock = "unlocked"
          /\ call.rule.ID \in DOMAIN registry
          /\ registry[call.rule.ID] = Stored(call.rule.ID)[1].arg
          /\ Cardinality(DOMAIN registry)
                = Len(SelectSeq(out, LAMBDA e : e.op = "store"))

\* A run in which a second rule object with the id of a registered rule was
\* registered and the panic has left Register.
C15_Witness ==
    /\ pc = "panic"
    /\ registry[call.rule.ID] # call.rule
    /\ registryLock = "unlocked"

\* C16: no method of a rule (ID, Check) is called while the registry lock is
\* held.
C16_NoRuleCodeUnderLock ==
    \A k \in 1..Len(out) :
        out[k].op \in {"ID", "Check"} => out[k].val = "unlocked"

-----------------------------------------------------------------------------
(* Specification SpecChecks: Check of single rules on one unit, with the    *)
(* outcome of the call (a return or a panic) appended to `out`.             *)

MaxChecks == 2

\* The outcome of a call: a normal return with its issues, or a panic.
Return(issues) == [panicked |-> FALSE, issues |-> issues]
Panic == [panicked |-> TRUE, issues |-> <<>>]

\* In this specification the value of ExecStart is kept as the sequence of
\* its characters, so that the string functions applied to it are computed.
\* UnitFile.GetDirective on such a value; "" is <<>>.
GetDirectiveChars(u, section, key) ==
    IF HasDirective(u, section, key) /\ Len(u.Sections[section][key]) > 0
    THEN u.Sections[section][key][1].Value
    ELSE <<>>

\* strings.TrimLeft(s, cutset)
RECURSIVE TrimLeft(_, _)
TrimLeft(s, cutset) ==
    IF Len(s) > 0 /\ Head(s) \in cutset THEN TrimLeft(Tail(s), cutset) ELSE s

\* strings.Fields(s): the maximal runs of non-blank characters; `field` is
\* the run being read.
RECURSIVE FieldsFrom(_, _)
FieldsFrom(s, field) ==
    IF Len(s) = 0 THEN (IF Len(field) > 0 THEN <<field>> ELSE <<>>)
    ELSE IF Head(s) = " "
         THEN (IF Len(field) > 0 THEN <<field>> ELSE <<>>) \o FieldsFrom(Tail(s), <<>>)
         ELSE FieldsFrom(Tail(s), Append(field, Head(s)))

Fields(s) == FieldsFrom(s, <<>>)

\* BP003.Check: strings.Fields(cmd)[0] is an index out of range, a panic,
\* when nothing is left of ExecStart after its prefixes.
BP003Check(ctx) ==
    LET unit == ctx.Unit
        execStart == GetDirectiveChars(unit, "Service", "ExecStart")
        fields == Fields(TrimLeft(execStart, {"-", "+", "!", "@"}))
    IN IF unit.Type # "service" THEN Return(<<>>)
       ELSE IF execStart = <<>> THEN Return(<<>>)
       ELSE IF Len(fields) = 0 THEN Panic
       ELSE IF fields[1][1] # "/"
            THEN Return(<<Issue("BP003", unit,
                                <<"ExecStart does not use absolute path: ", fields[1]>>)>>)
            ELSE Return(<<>>)

\* parseTimeValue, in milliseconds, on the values the model uses.
parseTimeValue(s) ==
    CASE s = "100ms" -> 100
      [] s = "1s" -> 1000
      [] s = "5" -> 5000
      [] s = "0" -> 0
      [] OTHER -> 0

\* REL002.Check: ctx.Config.Thresholds dereferences ctx.Config, a panic
\* when the context has no configuration.
REL002Check(ctx) ==
    LET unit == ctx.Unit
        restart == GetDirective(unit, "Service", "Restart")
        restartSec == GetDirective(unit, "Service", "RestartSec")
    IN IF unit.Type # "service" THEN Return(<<>>)
       ELSE IF restart \in {"", "no"} THEN Return(<<>>)
       ELSE IF restartSec = "" THEN Return(<<>>)
       ELSE IF ctx.Config = NoConfig THEN Panic
       ELSE LET minSec == IF ctx.Config.Thresholds.RestartSecMin = 0 THEN 1000
                          ELSE ctx.Config.Thresholds.RestartSecMin
            IN IF parseTimeValue(restartSec) < minSec
               THEN Return(<<Issue("REL002", unit,
                                   <<"RestartSec=", restartSec,
                                     " may cause rapid restart loops.">>)>>)
               ELSE Return(<<>>)

\* A configuration with the thresholds of DefaultConfig().
ThresholdConfig(restartSecMin) ==
    [DisabledRules |-> {}, SeverityOverrides |-> [r \in {} |-> 0],
     Thresholds |-> [RestartSecMin |-> restartSecMin]]

\* The values of ExecStart.
ExecStartValues ==
    {<<>>, <<"-">>, <<"+", "!">>, <<"/", "x">>, <<"x">>, <<"-", "/", "x">>,
     <<"@", "x", " ", "-", "f">>}

\* A unit whose [Service] section has the given keys; without keys it has
\* no section.
CheckUnit(type, keys, execStart, restart, restartSec) ==
    LET value == [k \in {"ExecStart", "Restart", "RestartSec"} |->
                    CASE k = "ExecStart" -> execStart
                      [] k = "Restart" -> restart
                      [] k = "RestartSec" -> restartSec]
    IN UnitFile("a.service", type,
                IF keys = {} THEN NoSections
                ELSE [sec \in {"Service"} |->
                        [k \in keys |-> <<Directive(value[k], 1)>>]])

InitChecks ==
    /\ \E type \in {"service", "target"},
          keys \in SUBSET {"ExecStart", "Restart", "RestartSec"},
          execStart \in ExecStartValues,
          restart \in {"no", "always"},
          restartSec \in {"", "100ms", "5"} :
          units = [n \in {"a.service"} |->
                      CheckUnit(type, keys, execStart, restart, restartSec)]
    /\ config \in {NoConfig, ThresholdConfig(1000), ThresholdConfig(0)}
    /\ allEdges = <<>>
    /\ registry = NoRules
    /\ registryLock = "unlocked"
    /\ call = NoCall
    /\ mu = NoLock
    /\ tui = NoModel
    /\ files = NoFiles
    /\ pc = "idle"
    /\ out = <<>>

\* rule.Check(ctx) with the context of the unit, with or without the map of
\* all units.
CheckContexts ==
    {Context(units["a.service"], U, config) : U \in {NoUnits, units}}

ChecksBP003 ==
    /\ Len(out) < MaxChecks
    /\ \E ctx \in CheckContexts :
          out' = Append(out, [op |-> "Check", arg |-> "BP003", val |-> BP003Check(ctx)])
    /\ UNCHANGED <<units, allEdges, registry, config, pc, registryLock, call, files, tui, mu>>

ChecksREL002 ==
    /\ Len(out) < MaxChecks
    /\ \E ctx \in CheckContexts :
          out' = Append(out, [op |-> "Check", arg |-> "REL002", val |-> REL002Check(ctx)])
    /\ UNCHANGED <<units, allEdges, registry, config, pc, registryLock, call, files, tui, mu>>

\* The rules whose Check reads neither ExecStart nor the configuration.
ChecksOther ==
    /\ Len(out) < MaxChecks
    /\ \E ctx \in CheckContexts, id \in {"BP004", "REL001"} :
          \E issues \in CheckOutcomes(id, ctx) :
             out' = Append(out, [op |-> "Check", arg |-> id, val |-> Return(issues)])
    /\ UNCHANGED <<units, allEdges, registry, config, pc, registryLock, call, files, tui, mu>>

NextChecks == ChecksBP003 \/ ChecksREL002 \/ ChecksOther

SpecChecks == InitChecks /\ [][NextChecks]_vars

\* C17: for every rule and every context (any unit content, prefix-only or
\* empty directive values, an empty map of all units, no configuration) Check
\* returns normally: no call ends in a panic.
C17_CheckNeverPanics ==
    \A k \in 1..Len(out) : out[k].op = "Check" => ~out[k].val.panicked

-----------------------------------------------------------------------------
(* Specification SpecScan: a scan by a program whose rules have registered  *)
(* themselves, over no unit or over one unit.                               *)

MaxScans == 1

\* The registry after the init functions of the rule packages have run.
CatalogRegistry == [id \in RuleIDs |-> CatalogRule(id)]

InitScan ==
    /\ units \in {NoUnits} \cup {[n \in {"a"} |-> u] : u \in RuleUnitShapes("a")}
    /\ config \in RuleConfigs
    /\ allEdges = <<>>
    /\ registry = CatalogRegistry
    /\ registryLock = "unlocked"
    /\ call = NoCall
    /\ mu = NoLock
    /\ tui = NoModel
    /\ files = NoFiles
    /\ pc = "run"
    /\ out = <<>>

ScanUnits ==
    /\ Len(out) < MaxScans
    /\ \E res \in Scan(DOMAIN registry, units, config) :
          out' = Append(out, [op |-> "Scan", arg |-> "", val |-> res])
    /\ UNCHANGED <<units, allEdges, registry, config, pc, registryLock, call, files, tui, mu>>

NextScan == ScanUnits

SpecScan == InitScan /\ [][NextScan]_vars

\* C18: a scan that returns no issues has an empty issue list and non-zero
\* total_units and rules_checked in its summary.
C18_NoIssueScanCounts ==
    \A k \in 1..Len(out) :
        (out[k].op = "Scan" /\ out[k].val.Summary.TotalIssues = 0) =>
            /\ out[k].val.Issues = <<>>
            /\ out[k].val.Summary.TotalUnits # 0
            /\ out[k].val.Summary.RulesChecked # 0

-----------------------------------------------------------------------------
(* Specification SpecLoad: the loaders of the analyzer on a file system     *)
(* with the directory d, holding x.service and y.service, and the single    *)
(* file f.service.  A path is the sequence of its elements.  A file is      *)
(* "ok", "unreadable" (os.ReadFile fails), "malformed" (the scanner fails)  *)
(* or "missing".                                                            *)

MaxLoads == 1

Dir == <<"d">>
SingleFile == <<"f.service">>
DirNames == {"x.service", "y.service"}

\* filepath.Join, filepath.Base
Join(dir, name) == Append(dir, name)
Base(path) == path[Len(path)]

FilePaths == {Join(Dir, name) : name \in DirNames} \cup {SingleFile}

IsDir(path) == path = Dir

\* os.Stat succeeds.
StatOk(fs, path) == IsDir(path) \/ fs[path] # "missing"

NoError == <<>>

\* ParseUnitFile: the unit of a file that is read and scanned, or the error.
ParseUnitFile(fs, path) ==
    IF fs[path] = "ok"
    THEN [err |-> NoError, unit |-> UnitFile(Base(path), "service", NoSections)]
    ELSE [err |-> <<fs[path], path>>, unit |-> UnitFile("", "", NoSections)]

\* LoadUnitsFromDirectory: the units of the entries that parse; an entry
\* that does not is skipped.
LoadUnitsFromDirectory(fs, dir) ==
    LET names == {name \in DirNames :
                     /\ fs[Join(dir, name)] # "missing"
                     /\ ParseUnitFile(fs, Join(dir, name)).err = NoError}
    IN [name \in names |-> ParseUnitFile(fs, Join(dir, name)).unit]

\* m[k] = v for every entry of the map `from`.
MapMerge(into, from) ==
    [k \in DOMAIN into \cup DOMAIN from |-> IF k \in DOMAIN from THEN from[k] ELSE into[k]]

\* LoadUnitsFromPaths: every failure, of a directory, of an entry or of a
\* path that names a file, is skipped with `continue`.
RECURSIVE LoadUnitsFrom(_, _, _, _)
LoadUnitsFrom(fs, paths, i, allUnits) ==
    IF i > Len(paths) THEN [err |-> NoError, units |-> allUnits]
    ELSE LET path == paths[i]
         IN IF ~StatOk(fs, path) THEN LoadUnitsFrom(fs, paths, i + 1, allUnits)
            ELSE IF IsDir(path)
                 THEN LoadUnitsFrom(fs, paths, i + 1,
                                    MapMerge(allUnits, LoadUnitsFromDirectory(fs, path)))
            ELSE IF ParseUnitFile(fs, path).err # NoError
                 THEN LoadUnitsFrom(fs, paths, i + 1, allUnits)
            ELSE LoadUnitsFrom(fs, paths, i + 1,
                               MapMerge(allUnits,
                                        [n \in {Base(path)} |-> ParseUnitFile(fs, path).unit]))

LoadUnitsFromPaths(fs, paths) == LoadUnitsFrom(fs, paths, 1, NoUnits)

\* The first loop of CheckFiles: the outcomes (the error, the map allUnits
\* and the slice units as the names in the order of loading); the units of
\* a directory are appended in the order of the range over its map.
RECURSIVE CheckFilesLoad(_, _, _, _, _)
CheckFilesLoad(fs, paths, i, allUnits, order) ==
    IF i > Len(paths) THEN {[err |-> NoError, units |-> allUnits, order |-> order]}
    ELSE LET path == paths[i]
             failed(msg) == {[err |-> <<msg, path>>, units |-> NoUnits, order |-> <<>>]}
         IN IF ~StatOk(fs, path) THEN failed("cannot access")
            ELSE IF IsDir(path)
                 THEN LET dirUnits == LoadUnitsFromDirectory(fs, path)
                      IN UNION {CheckFilesLoad(fs, paths, i + 1,
                                               MapMerge(allUnits, dirUnits), order \o o) :
                                   o \in Perms(DOMAIN dirUnits)}
            ELSE IF ParseUnitFile(fs, path).err # NoError THEN failed("failed to parse")
            ELSE CheckFilesLoad(fs, paths, i + 1,
                                MapMerge(allUnits,
                                         [n \in {Base(path)} |-> ParseUnitFile(fs, path).unit]),
                                Append(order, Base(path)))

\* Analyzer.CheckFiles without filter options: the results a call can return.
\* Units is the slice `units` as names, `units` the map allUnits.
CheckFiles(reg, fs, paths, cfg) ==
    UNION {IF l.err # NoError
           THEN {[err |-> l.err, units |-> NoUnits, Units |-> <<>>, Issues |-> <<>>,
                  TotalUnits |-> 0]}
           ELSE {[err |-> NoError, units |-> l.units, Units |-> l.order,
                  Issues |-> SortByKey(issues, IssueKey),
                  TotalUnits |-> Len(l.order)] :
                    issues \in ScanIssuesFrom(reg, l.units, cfg, l.order, 1)} :
           l \in CheckFilesLoad(fs, paths, 1, NoUnits, <<>>)}

LoadArguments == {<<SingleFile>>, <<Dir>>, <<Dir, SingleFile>>, <<SingleFile, Dir>>}

InitLoad ==
    /\ files \in [FilePaths -> {"ok", "unreadable", "malformed", "missing"}]
    /\ units = NoUnits
    /\ allEdges = <<>>
    /\ registry = CatalogRegistry
    /\ registryLock = "unlocked"
    /\ call = NoCall
    /\ mu = NoLock
    /\ tui = NoModel
    /\ config = DefaultConfig
    /\ pc = "run"
    /\ out = <<>>

LoadPaths ==
    /\ Len(out) < MaxLoads
    /\ \E paths \in LoadArguments :
          out' = Append(out, [op |-> "LoadUnitsFromPaths", arg |-> paths,
                              val |-> LoadUnitsFromPaths(files, paths)])
    /\ UNCHANGED <<units, allEdges, registry, registryLock, call, config, pc, files, tui, mu>>

LoadCheckFiles ==
    /\ Len(out) < MaxLoads
    /\ \E paths \in LoadArguments :
          \E res \in CheckFiles(DOMAIN registry, files, paths, config) :
             out' = Append(out, [op |-> "CheckFiles", arg |-> paths, val |-> res])
    /\ UNCHANGED <<units, allEdges, registry, registryLock, call, config, pc, files, tui, mu>>

NextLoad == LoadPaths \/ LoadCheckFiles

SpecLoad == InitLoad /\ [][NextLoad]_vars

\* The paths of a call that name a single file which cannot be loaded.
FailingFiles(paths) ==
    {i \in 1..Len(paths) : ~IsDir(paths[i]) /\ files[paths[i]] # "ok"}

\* C19: on every loading path a named single file that cannot be read or
\* parsed makes the call return that failure; a file of a directory that
\* cannot be read is skipped and the other files of the directory are
\* returned.
C19_SingleFileFailureSurfaces ==
    \A k \in 1..Len(out) :
        LET paths == out[k].arg
            res == out[k].val
        IN /\ FailingFiles(paths) # {} =>
                 /\ res.err # NoError
                 /\ \E i \in FailingFiles(paths) :
                       /\ res.err[2] = paths[i]
                       /\ \A j \in FailingFiles(paths) : i <= j
           /\ FailingFiles(paths) = {} =>
                 /\ res.err = NoError
                 /\ \A name \in DirNames :
                       (Dir \in Range(paths) /\ files[Join(Dir, name)] = "ok")
                           => name \in DOMAIN res.units

-----------------------------------------------------------------------------
(* Specification SpecJob: ParseTimeouts on a service unit with or without   *)
(* JobTimeoutSec= and JobRunningTimeoutSec= in [Unit].                      *)

MaxParses == 1

\* The JobTimeoutSec field of ParseTimeouts(unit, nil): JobRunningTimeoutSec
\* is stored when the field is still 0 after JobTimeoutSec was read.
ParseJobTimeoutSec(unit) ==
    LET job == GetDirective(unit, "Unit", "JobTimeoutSec")
        running == GetDirective(unit, "Unit", "JobRunningTimeoutSec")
        afterJob == IF job # "" /\ ~ParseDuration(job).err
                    THEN ParseDuration(job).d ELSE 0
    IN IF running # "" /\ ~ParseDuration(running).err /\ afterJob = 0
       THEN ParseDuration(running).d
       ELSE afterJob

\* ParseTimeouts(unit, nil), reduced to the start and the job timeout.
ParseTimeouts(unit) ==
    [Unit |-> unit.Name,
     TimeoutStartSec |-> ParseTimeoutStartSec(unit),
     JobTimeoutSec |-> ParseJobTimeoutSec(unit)]

JobValues == {"", "0", "infinity", "30", "5min", "bogus"}

JobUnit(keys, job, running, start) ==
    LET value == [k \in {"JobTimeoutSec", "JobRunningTimeoutSec"} |->
                    IF k = "JobTimeoutSec" THEN job ELSE running]
        unitSection == IF keys = {} THEN NoSections
                       ELSE [s \in {"Unit"} |-> [k \in keys |-> <<Directive(value[k], 1)>>]]
        serviceSection == IF start = "" THEN NoSections
                          ELSE [s \in {"Service"} |->
                                  [k \in {"TimeoutStartSec"} |-> <<Directive(start, 1)>>]]
    IN UnitFile("a.service", "service",
                [s \in DOMAIN unitSection \cup DOMAIN serviceSection |->
                    IF s = "Unit" THEN unitSection[s] ELSE serviceSection[s]])

InitJob ==
    /\ \E keys \in SUBSET {"JobTimeoutSec", "JobRunningTimeoutSec"},
          job \in JobValues, running \in JobValues, start \in CritValues :
          units = [n \in {"a.service"} |-> JobUnit(keys, job, running, start)]
    /\ allEdges = <<>>
    /\ registry = NoRules
    /\ registryLock = "unlocked"
    /\ call = NoCall
    /\ mu = NoLock
    /\ tui = NoModel
    /\ files = NoFiles
    /\ config = DefaultConfig
    /\ pc = "run"
    /\ out = <<>>

JobParse ==
    /\ Len(out) < MaxParses
    /\ \E n \in DOMAIN units :
          out' = Append(out, [op |-> "ParseTimeouts", arg |-> units[n],
                              val |-> ParseTimeouts(units[n])])
    /\ UNCHANGED <<units, allEdges, registry, registryLock, call, config, pc, files, tui, mu>>

NextJob == JobParse

SpecJob == InitJob /\ [][NextJob]_vars

\* The duration a directive of [Unit] gives on its own: 0 when the value is
\* empty or does not parse.
DurationOf(unit, key) ==
    LET value == GetDirective(unit, "Unit", key)
    IN IF value # "" /\ ~ParseDuration(value).err THEN ParseDuration(value).d ELSE 0

\* C20: the job timeout comes from JobRunningTimeoutSec only when the unit
\* does not set JobTimeoutSec; when JobTimeoutSec is present, whatever its
\* value, JobRunningTimeoutSec is ignored.
C20_JobRunningOnlyWhenJobUnset ==
    \A k \in 1..Len(out) :
        out[k].op = "ParseTimeouts" =>
            out[k].val.JobTimeoutSec =
                IF HasDirective(out[k].arg, "Unit", "JobTimeoutSec")
                THEN DurationOf(out[k].arg, "JobTimeoutSec")
                ELSE DurationOf(out[k].arg, "JobRunningTimeoutSec")

-----------------------------------------------------------------------------
(* Specification SpecParse: a unit file is written line by line and parsed. *)
(* A line is kept as what the tests of the parser find in it: a section     *)
(* header, a key=value line, a comment, or a line without "=".              *)

MaxLines == 4

UnitPath == <<"u.service">>

Header(name) == [kind |-> "header", name |-> name, key |-> "", value |-> ""]
KeyValue(key, value) == [kind |-> "directive", name |-> "", key |-> key, value |-> value]
Comment == [kind |-> "comment", name |-> "", key |-> "", value |-> ""]

ParseLines ==
    {Header("Service"), Header("Unit"), Comment,
     KeyValue("ExecStartPre", "a"), KeyValue("ExecStartPre", "b"), KeyValue("Type", "x")}

\* unit.Sections[sectionName] = a new Section without directives.
NewSection(sections, name) ==
    [sec \in DOMAIN sections \cup {name} |->
        IF sec = name THEN [k \in {} |-> <<>>] ELSE sections[sec]]

\* currentSection.Directives[key] = append(currentSection.Directives[key], d)
AppendDirective(sections, name, key, d) ==
    [sections EXCEPT ![name] =
        [k \in DOMAIN sections[name] \cup {key} |->
            IF k = key
            THEN (IF key \in DOMAIN sections[name] THEN sections[name][key] ELSE <<>>) \o <<d>>
            ELSE sections[name][k]]]

\* The scanner loop of ParseUnitFileContent from line lineNum on; current is
\* the name of currentSection, "" for nil.
RECURSIVE ParseFrom(_, _, _, _)
ParseFrom(lines, lineNum, sections, current) ==
    IF lineNum > Len(lines) THEN sections
    ELSE LET line == lines[lineNum]
         IN IF line.kind = "comment"
            THEN ParseFrom(lines, lineNum + 1, sections, current)
            ELSE IF line.kind = "header"
            THEN ParseFrom(lines, lineNum + 1, NewSection(sections, line.name), line.name)
            ELSE IF current # "" /\ line.kind = "directive"
            THEN ParseFrom(lines, lineNum + 1,
                           AppendDirective(sections, current, line.key,
                                           Directive(line.value, lineNum)),
                           current)
            ELSE ParseFrom(lines, lineNum + 1, sections, current)

ParseUnitFileContent(path, lines) ==
    UnitFile(Base(path), "service", ParseFrom(lines, 1, NoSections, ""))

InitParse ==
    /\ files = [path \in {UnitPath} |-> <<>>]
    /\ units = NoUnits
    /\ allEdges = <<>>
    /\ registry = NoRules
    /\ registryLock = "unlocked"
    /\ call = NoCall
    /\ mu = NoLock
    /\ tui = NoModel
    /\ config = DefaultConfig
    /\ pc = "write"
    /\ out = <<>>

\* One more line is written to the file.
ParseWriteLine ==
    /\ pc = "write"
    /\ Len(files[UnitPath]) < MaxLines
    /\ \E line \in ParseLines :
          files' = [files EXCEPT ![UnitPath] = Append(@, line)]
    /\ UNCHANGED <<units, allEdges, registry, registryLock, call, config, pc, out, tui, mu>>

ParseUnit ==
    /\ pc = "write"
    /\ LET unit == ParseUnitFileContent(UnitPath, files[UnitPath])
       IN /\ units' = [n \in {unit.Name} |-> unit]
          /\ out' = Append(out, [op |-> "ParseUnitFileContent", arg |-> UnitPath,
                                 val |-> unit])
    /\ pc' = "parsed"
    /\ UNCHANGED <<allEdges, registry, registryLock, call, config, files, tui, mu>>

NextParse == ParseWriteLine \/ ParseUnit

SpecParse == InitParse /\ [][NextParse]_vars

\* The section a line of the file belongs to: the name of the last header
\* at or before it, "" before the first header.
RECURSIVE SectionOfLine(_, _)
SectionOfLine(lines, i) ==
    IF i = 0 THEN ""
    ELSE IF lines[i].kind = "header" THEN lines[i].name
    ELSE SectionOfLine(lines, i - 1)

\* The values of key among the lines of section, in file order.
ValuesInFile(lines, section, key) ==
    LET idx == SelectSeq([i \in 1..Len(lines) |-> i],
                         LAMBDA i : /\ lines[i].kind = "directive"
                                    /\ lines[i].key = key
                                    /\ SectionOfLine(lines, i) = section)
    IN [j \in 1..Len(idx) |-> lines[idx[j]].value]

\* C21: for every section S and key K, GetDirectives(S, K) on the parsed unit
\* holds the values of the lines K= of section S, all of them and in file
\* order, also when the header [S] occurs more than once.
C21_RepeatedKeysAccumulate ==
    pc = "parsed" =>
        \A section \in {"Service", "Unit"}, key \in {"ExecStartPre", "Type"} :
            LET got == GetDirectives(units["u.service"], section, key)
            IN [j \in 1..Len(got) |-> got[j].Value]
                  = ValuesInFile(files[UnitPath], section, key)

-----------------------------------------------------------------------------
(* Specification SpecMount: pathToMountUnitName on absolute paths.  A path  *)
(* and a unit name are sequences of characters; ".mount" is kept as one     *)
(* element.                                                                 *)

MaxSegments == 2
MaxSegmentLen == 3
MaxTranslations == 1

\* The characters of the segments: a letter, the dash, and the blank as a
\* character that needs escaping.
SegmentChars == {"a", "-", " "}

RECURSIVE SeqsUpTo(_, _)
SeqsUpTo(S, n) ==
    IF n = 0 THEN {<<>>}
    ELSE SeqsUpTo(S, n - 1) \cup {Append(q, x) : q \in SeqsUpTo(S, n - 1), x \in S}

Segments == SeqsUpTo(SegmentChars, MaxSegmentLen) \ {<<>>}

\* "/" followed by the segments joined with "/".
RECURSIVE JoinSegments(_)
JoinSegments(segs) ==
    IF Len(segs) = 0 THEN <<>>
    ELSE IF Len(segs) = 1 THEN Head(segs)
    ELSE Head(segs) \o <<"/">> \o JoinSegments(Tail(segs))

AbsolutePath(segs) == <<"/">> \o JoinSegments(segs)

\* The segments of a path: the maximal runs without "/".
RECURSIVE SplitPath(_, _)
SplitPath(path, seg) ==
    IF Len(path) = 0 THEN (IF Len(seg) > 0 THEN <<seg>> ELSE <<>>)
    ELSE IF Head(path) = "/"
         THEN (IF Len(seg) > 0 THEN <<seg>> ELSE <<>>) \o SplitPath(Tail(path), <<>>)
         ELSE SplitPath(Tail(path), Append(seg, Head(path)))

\* filepath.Clean on an absolute path without "." and ".." elements:
\* repeated and trailing separators are removed.
Clean(path) == AbsolutePath(SplitPath(path, <<>>))

\* strings.ReplaceAll(s, old, new) for one-character old and new.
ReplaceAll(s, old, new) == [i \in 1..Len(s) |-> IF s[i] = old THEN new ELSE s[i]]

\* escapeMountUnitName: letters, digits, "-" and "_" are kept, every other
\* character c becomes \xHH.
RECURSIVE escapeMountUnitName(_)
escapeMountUnitName(s) ==
    IF Len(s) = 0 THEN <<>>
    ELSE (IF Head(s) \in {"a", "-", "_"} THEN <<Head(s)>>
          ELSE <<"\\", "x", "2", "0">>) \o escapeMountUnitName(Tail(s))

pathToMountUnitName(path) ==
    IF path = <<"/">> THEN <<"-", ".mount">>
    ELSE LET cleaned == Clean(path)
             trimmed == SubSeq(cleaned, 2, Len(cleaned))
         IN Append(escapeMountUnitName(ReplaceAll(trimmed, "/", "-")), ".mount")

\* The paths given to the function: up to MaxSegments segments, with or
\* without a trailing separator.
MountSegmentLists ==
    UNION {[1..n -> Segments] : n \in 0..MaxSegments}

MountPaths ==
    {AbsolutePath(segs) : segs \in MountSegmentLists}
       \cup {Append(AbsolutePath(segs), "/") : segs \in MountSegmentLists \ {<<>>}}

InitMount ==
    /\ files = NoFiles
    /\ units = NoUnits
    /\ allEdges = <<>>
    /\ registry = NoRules
    /\ registryLock = "unlocked"
    /\ call = NoCall
    /\ mu = NoLock
    /\ tui = NoModel
    /\ config = DefaultConfig
    /\ pc = "run"
    /\ out = <<>>

MountTranslate ==
    /\ Len(out) < MaxTranslations
    /\ \E path \in MountPaths :
          out' = Append(out, [op |-> "pathToMountUnitName", arg |-> path,
                              val |-> pathToMountUnitName(path)])
    /\ UNCHANGED <<units, allEdges, registry, registryLock, call, config, pc, files, tui, mu>>

NextMount == MountTranslate

SpecMount == InitMount /\ [][NextMount]_vars

\* The inverse mapping of systemd: the suffix is dropped, "-" alone is the
\* root, otherwise every "-" is a separator and \xHH is the character.
RECURSIVE unescapeName(_)
unescapeName(s) ==
    IF Len(s) = 0 THEN <<>>
    ELSE IF Len(s) >= 4 /\ SubSeq(s, 1, 4) = <<"\\", "x", "2", "0">>
         THEN <<" ">> \o unescapeName(SubSeq(s, 5, Len(s)))
    ELSE (IF Head(s) = "-" THEN <<"/">> ELSE <<Head(s)>>) \o unescapeName(Tail(s))

mountUnitNameToPath(name) ==
    LET stem == SubSeq(name, 1, Len(name) - 1)
    IN IF stem = <<"-">> THEN <<"/">> ELSE <<"/">> \o unescapeName(stem)

\* The paths the claim is about: every segment matches [A-Za-z0-9_-]+.
ValidSegments == SeqsUpTo({"a", "-"}, MaxSegmentLen) \ {<<>>}

ValidPaths ==
    {AbsolutePath(segs) :
        segs \in UNION {[1..n -> ValidSegments] : n \in 0..MaxSegments}}

\* C22: for a path whose segments match [A-Za-z0-9_-]+ the inverse mapping
\* of the mount unit name gives the path back, and no other such path has
\* the same mount unit name.
C22_MountNameRoundTrip ==
    \A k \in 1..Len(out) :
        out[k].arg \in ValidPaths =>
            /\ mountUnitNameToPath(out[k].val) = out[k].arg
            /\ \A other \in ValidPaths :
                  pathToMountUnitName(other) = out[k].val => other = out[k].arg

-----------------------------------------------------------------------------
(* Specification SpecService: ValidateService on a service unit whose        *)
(* [Service] section has ExecStart=, ExecStartPre= and Type= or not, against *)
(* a file system in which each executable is "exec", "noexec" or "missing".  *)
(* The values of Exec* are sequences of characters.                          *)

MaxValidations == 1

ExecPaths == {<<"/", "x">>, <<"/", "y">>}

\* The prefix loop of validateExecPath: the command without its prefix
\* characters, and whether a "-" was among them.
RECURSIVE StripPrefixes(_, _)
StripPrefixes(cmd, optional) ==
    IF Len(cmd) = 0 THEN [cmd |-> cmd, optional |-> optional]
    ELSE IF Head(cmd) = "-" THEN StripPrefixes(Tail(cmd), TRUE)
    ELSE IF Head(cmd) \in {"@", "!", "|", "+", ":"} THEN StripPrefixes(Tail(cmd), optional)
    ELSE [cmd |-> cmd, optional |-> optional]

MissingExec(directive, path, optional, line) ==
    [Directive |-> directive, Path |-> path, Optional |-> optional, Line |-> line]

\* fs.Exists, fs.IsExecutable
Exists(fs, path) == path \in DOMAIN fs /\ fs[path] # "missing"
IsExecutable(fs, path) == path \in DOMAIN fs /\ fs[path] = "exec"

validateExecPath(value, directive, line, fs) ==
    LET stripped == StripPrefixes(value, FALSE)
        parts == Fields(stripped.cmd)
        none == [missing |-> <<>>, notExec |-> <<>>]
    IN IF value = <<>> THEN none
       ELSE IF Len(parts) = 0 THEN none
       ELSE IF "%" \in Range(parts[1]) THEN none
       ELSE IF ~Exists(fs, parts[1])
            THEN [missing |-> <<MissingExec(directive, parts[1], stripped.optional, line)>>,
                  notExec |-> <<>>]
       ELSE IF ~IsExecutable(fs, parts[1])
            THEN [missing |-> <<>>,
                  notExec |-> <<MissingExec(directive, parts[1], stripped.optional, line)>>]
       ELSE none

\* validateServiceType for Type= absent ("simple") or oneshot.
validateServiceType(unit) ==
    LET serviceType == IF GetDirective(unit, "Service", "Type") = "" THEN "simple"
                       ELSE GetDirective(unit, "Service", "Type")
    IN IF serviceType = "simple" /\ Len(GetDirectives(unit, "Service", "ExecStart")) = 0
       THEN <<"Type=simple but no ExecStart= defined">>
       ELSE <<>>

\* The loop of ValidateService over the Exec* directives, in the order of
\* execDirectives; the units of the model have the first two.
ExecResults(unit, fs) ==
    Flatten([i \in 1..2 |->
        LET directive == <<"ExecStart", "ExecStartPre">>[i]
            dirs == GetDirectives(unit, "Service", directive)
        IN [j \in 1..Len(dirs) |->
               validateExecPath(dirs[j].Value, directive, dirs[j].Line, fs)]])

\* ValidateService.  The units of the model set neither User= nor Group=
\* nor a sandboxing key, so UserNotFound, GroupNotFound and
\* ContradictorySandbox stay empty.
ValidateService(unit, fs) ==
    LET results == ExecResults(unit, fs)
        notFound == Flatten([i \in 1..Len(results) |-> results[i].missing])
        notExec == Flatten([i \in 1..Len(results) |-> results[i].notExec])
        execStartMissing ==
            /\ Len(GetDirectives(unit, "Service", "ExecStart")) = 0
            /\ GetDirective(unit, "Service", "Type") # "oneshot"
        typeIssues == validateServiceType(unit)
        result(valid, missing, nf, ne, ti) ==
            [Unit |-> unit.Name, ExecStartMissing |-> missing, ExecStartNotFound |-> nf,
             ExecStartNotExec |-> ne, ContradictorySandbox |-> <<>>, TypeIssues |-> ti,
             Valid |-> valid]
    IN IF unit.Type # "service" THEN result(TRUE, FALSE, <<>>, <<>>, <<>>)
       ELSE IF "Service" \notin DOMAIN unit.Sections
            THEN result(FALSE, FALSE, <<>>, <<>>, <<>>)
       ELSE result(~execStartMissing /\ Len(notFound) = 0 /\ Len(typeIssues) = 0,
                   execStartMissing, notFound, notExec, typeIssues)

\* The values of an Exec* directive: a path with or without prefix
\* characters and arguments, the empty value, prefix characters alone, and
\* a path with a specifier.
ExecValues ==
    {prefix \o path \o args :
        prefix \in {<<>>, <<"-">>, <<"@", "-">>, <<"+">>},
        path \in ExecPaths,
        args \in {<<>>, <<" ", "-", "f">>}}
      \cup {<<>>, <<"-">>, <<"%", "t", "/", "x">>}

ServiceUnitOf(type, keys, execStart, execStartPre, serviceType) ==
    LET value == [k \in {"ExecStart", "ExecStartPre", "Type"} |->
                    CASE k = "ExecStart" -> execStart
                      [] k = "ExecStartPre" -> execStartPre
                      [] k = "Type" -> serviceType]
        line == [k \in {"ExecStart", "ExecStartPre", "Type"} |->
                    CASE k = "Type" -> 2 [] k = "ExecStartPre" -> 3 [] k = "ExecStart" -> 4]
    IN UnitFile("a.service", type,
                IF keys = {} THEN NoSections
                ELSE [sec \in {"Service"} |->
                        [k \in keys |-> <<Directive(value[k], line[k])>>]])

InitService ==
    /\ files \in [ExecPaths -> {"exec", "noexec", "missing"}]
    /\ \E type \in {"service", "target"},
          keys \in SUBSET {"ExecStart", "ExecStartPre", "Type"},
          execStart \in ExecValues,
          execStartPre \in {<<"/", "y">>, <<"-", "/", "y">>} :
          units = [n \in {"a.service"} |->
                      ServiceUnitOf(type, keys, execStart, execStartPre, "oneshot")]
    /\ allEdges = <<>>
    /\ registry = NoRules
    /\ registryLock = "unlocked"
    /\ call = NoCall
    /\ mu = NoLock
    /\ tui = NoModel
    /\ config = DefaultConfig
    /\ pc = "run"
    /\ out = <<>>

ServiceValidate ==
    /\ Len(out) < MaxValidations
    /\ \E n \in DOMAIN units :
          out' = Append(out, [op |-> "ValidateService", arg |-> units[n],
                              val |-> ValidateService(units[n], files)])
    /\ UNCHANGED <<units, allEdges, registry, registryLock, call, config, pc, files, tui, mu>>

NextService == ServiceValidate

SpecService == InitService /\ [][NextService]_vars

\* C23: the executable of an Exec* command has to exist only when the
\* command is not optional: a service record is invalid exactly when the
\* unit has no [Service] section, no ExecStart=, a Type= issue, or a missing
\* executable of a command without the "-" prefix.
C23_OptionalMissingExecIsValid ==
    \A k \in 1..Len(out) :
        (out[k].op = "ValidateService" /\ out[k].arg.Type = "service") =>
            LET res == out[k].val
            IN ~res.Valid <=>
                  \/ "Service" \notin DOMAIN out[k].arg.Sections
                  \/ res.ExecStartMissing
                  \/ Len(res.TypeIssues) > 0
                  \/ \E i \in 1..Len(res.ExecStartNotFound) :
                        ~res.ExecStartNotFound[i].Optional

-----------------------------------------------------------------------------
(* Specification SpecTui: the terminal UI receives key and window size      *)
(* messages.  `out` is the log of the keys with the view after each.        *)

MaxKeys == 4

\* The keys of KeyMap that Update tests, and "j" for every other key.
TuiKeys == {"q", "esc", "d", "i", "?", "enter", "j"}

\* tui.New: the model of a scan result starts on the dashboard.
New == [view |-> "ViewDashboard", quitting |-> FALSE, width |-> 0, height |-> 0]

\* Model.Update on a tea.KeyMsg.
UpdateKey(m, k) ==
    CASE k = "q" -> [m EXCEPT !.quitting = TRUE]
      [] k = "esc" -> [m EXCEPT !.view = "ViewDashboard"]
      [] k = "d" -> [m EXCEPT !.view = "ViewDashboard"]
      [] k = "i" -> [m EXCEPT !.view = "ViewIssues"]
      [] k = "?" -> [m EXCEPT !.view = IF m.view = "ViewHelp" THEN "ViewDashboard"
                                       ELSE "ViewHelp"]
      [] k = "enter" -> [m EXCEPT !.view = IF m.view = "ViewIssues" THEN "ViewUnitDetail"
                                           ELSE m.view]
      [] OTHER -> m

InitTui ==
    /\ tui = New
    /\ files = NoFiles
    /\ units = NoUnits
    /\ allEdges = <<>>
    /\ registry = NoRules
    /\ registryLock = "unlocked"
    /\ call = NoCall
    /\ mu = NoLock
    /\ config = DefaultConfig
    /\ pc = "run"
    /\ out = <<>>

\* Update on a tea.KeyMsg; after Quit the program receives no message.
TuiKey ==
    /\ ~tui.quitting
    /\ Len(out) < MaxKeys
    /\ \E k \in TuiKeys :
          /\ tui' = UpdateKey(tui, k)
          /\ out' = Append(out, [op |-> "key", arg |-> k, val |-> UpdateKey(tui, k).view])
    /\ UNCHANGED <<units, allEdges, registry, registryLock, call, config, pc, files, mu>>

\* Update on a tea.WindowSizeMsg.
TuiResize ==
    /\ ~tui.quitting
    /\ \E w \in {80, 120} : tui' = [tui EXCEPT !.width = w, !.height = 24]
    /\ UNCHANGED <<units, allEdges, registry, registryLock, call, config, pc, out, files, mu>>

NextTui == TuiKey \/ TuiResize

SpecTui == InitTui /\ [][NextTui]_vars

\* The view in which the k-th key of the log was pressed.
ViewBefore(k) == IF k = 1 THEN New.view ELSE out[k - 1].val

\* C24: Esc pressed in the unit-detail view, which is entered from the issue
\* list with Enter, returns to the issue list.
C24_EscReturnsToIssueList ==
    \A k \in 1..Len(out) :
        (out[k].arg = "esc" /\ ViewBefore(k) = "ViewUnitDetail") =>
            out[k].val = "ViewIssues"

-----------------------------------------------------------------------------
(* Restart deadlocks (DetectDeadlocks) *)

\* The lookup maps of DetectDeadlocks: unit -> the targets of its edges of
\* the type.
DepMap(E, type) ==
    LET typed == {E[i] : i \in {j \in 1..Len(E) : E[j].type = type}}
    IN [u \in {e.from : e \in typed} |-> {e.to : e \in {x \in typed : x.from = u}}]

Has(map, from, to) == from \in DOMAIN map /\ to \in map[from]

\* The orders in which the keys of a map, and the targets of each key, can
\* be ranged over.
InnerOrders(map) ==
    {f \in [DOMAIN map -> UNION {Perms(map[u]) : u \in DOMAIN map}] :
        \A u \in DOMAIN map : f[u] \in Perms(map[u])}

RestartDeadlock(unitA, unitB, scenario, severity) ==
    [UnitA |-> unitA, UnitB |-> unitB, Scenario |-> scenario, Severity |-> severity]

\* Pattern 1 (lines 72-131): A has BindsTo=B and After=B, and B has
\* Requires=A, After=A or BindsTo=A.
DeadlockPattern1(after, bindsTo, requires, outer, inner) ==
    Flatten([i \in 1..Len(outer) |->
        LET unitA == outer[i]
        IN Flatten([j \in 1..Len(inner[unitA]) |->
              LET unitB == inner[unitA][j]
              IN IF ~Has(after, unitA, unitB) THEN <<>>
                 ELSE (IF Has(requires, unitB, unitA)
                       THEN <<RestartDeadlock(unitA, unitB, "After+BindsTo, Requires back",
                                              "critical")>>
                       ELSE <<>>)
                   \o (IF Has(after, unitB, unitA)
                       THEN <<RestartDeadlock(unitA, unitB, "After+BindsTo, mutual After",
                                              "high")>>
                       ELSE <<>>)
                   \o (IF Has(bindsTo, unitB, unitA)
                       THEN <<RestartDeadlock(unitA, unitB, "Mutual BindsTo with After",
                                              "critical")>>
                       ELSE <<>>)])])

\* Pattern 2 (lines 135-161): A BindsTo B, B After C, C Requires A.
DeadlockPattern2(after, bindsTo, requires, outer, inner, afterOrder) ==
    Flatten([i \in 1..Len(outer) |->
        LET unitA == outer[i]
        IN Flatten([j \in 1..Len(inner[unitA]) |->
              LET unitB == inner[unitA][j]
                  cs == IF unitB \in DOMAIN after THEN afterOrder[unitB] ELSE <<>>
              IN Flatten([k \in 1..Len(cs) |->
                    IF cs[k] # unitA /\ Has(requires, cs[k], unitA)
                    THEN <<RestartDeadlock(unitA, unitB, "Transitive", "high")>>
                    ELSE <<>>])])])

\* Pattern 3 (lines 175-200): A BindsTo B, A Conflicts C, B Requires C.
DeadlockPattern3(bindsTo, requires, conflicts, outer, inner, conflictOrder) ==
    Flatten([i \in 1..Len(outer) |->
        LET unitA == outer[i]
        IN Flatten([j \in 1..Len(inner[unitA]) |->
              LET unitB == inner[unitA][j]
                  xs == IF unitA \in DOMAIN conflicts /\ unitB \in DOMAIN requires
                        THEN conflictOrder[unitA] ELSE <<>>
              IN Flatten([k \in 1..Len(xs) |->
                    IF xs[k] \in requires[unitB]
                    THEN <<RestartDeadlock(unitA, unitB, "BindsTo+Conflicts", "critical")>>
                    ELSE <<>>])])])

\* Lines 207-220: the first deadlock of every unordered pair is kept.
RECURSIVE DedupeDeadlocks(_, _, _)
DedupeDeadlocks(deadlocks, i, seen) ==
    IF i > Len(deadlocks) THEN <<>>
    ELSE LET key == PairKey(deadlocks[i].UnitA, deadlocks[i].UnitB)
         IN IF key \in seen THEN DedupeDeadlocks(deadlocks, i + 1, seen)
            ELSE <<deadlocks[i]>> \o DedupeDeadlocks(deadlocks, i + 1, seen \cup {key})

\* The choices of the map ranges of one call.
DeadlockOrders(E) ==
    LET bindsTo == DepMap(E, "BindsTo")
    IN [o1 : Perms(DOMAIN bindsTo), o2 : Perms(DOMAIN bindsTo), o3 : Perms(DOMAIN bindsTo),
        b1 : InnerOrders(bindsTo), b2 : InnerOrders(bindsTo), b3 : InnerOrders(bindsTo),
        c2 : InnerOrders(DepMap(E, "After")), x3 : InnerOrders(DepMap(E, "Conflicts"))]

DetectDeadlocks(E, ord) ==
    LET after == DepMap(E, "After")
        bindsTo == DepMap(E, "BindsTo")
        requires == DepMap(E, "Requires")
        conflicts == DepMap(E, "Conflicts")
        found == DeadlockPattern1(after, bindsTo, requires, ord.o1, ord.b1)
                   \o DeadlockPattern2(after, bindsTo, requires, ord.o2, ord.b2, ord.c2)
                   \o DeadlockPattern3(bindsTo, requires, conflicts, ord.o3, ord.b3, ord.x3)
        sorted == SortByKey(found, LAMBDA d : SeverityOrder(d.Severity))
        deadlocks == DedupeDeadlocks(sorted, 1, {})
    IN [Deadlocks |-> deadlocks,
        TotalDeadlocks |-> Len(deadlocks),
        CriticalCount |-> CountSeverity(deadlocks, "critical"),
        HighCount |-> CountSeverity(deadlocks, "high")]

-----------------------------------------------------------------------------
(* Specification SpecDeadlock: the graph of a, b and c is built edge by     *)
(* edge, then the restart deadlocks are detected.                           *)

MaxDeadlockEdges == 4

\* The edges of the runs: every After, BindsTo and Requires edge between a
\* and b, and the edges through c of the transitive and the conflict pattern.
DeadlockEdges ==
    {Edge(p[1], p[2], ty) : p \in {<<"a", "b">>, <<"b", "a">>},
                            ty \in {"After", "BindsTo", "Requires"}}
     \cup {Edge("b", "c", "After"), Edge("c", "a", "Requires"),
           Edge("a", "c", "Conflicts"), Edge("b", "c", "Requires")}

InitDeadlock ==
    /\ units = [n \in {"a", "b", "c"} |-> UnitFile(n, "service", NoSections)]
    /\ allEdges = <<>>
    /\ registry = NoRules
    /\ registryLock = "unlocked"
    /\ call = NoCall
    /\ mu = NoLock
    /\ tui = NoModel
    /\ files = NoFiles
    /\ config = DefaultConfig
    /\ pc = "build"
    /\ out = <<>>

DeadlockAddEdge ==
    /\ pc = "build"
    /\ Len(allEdges) < MaxDeadlockEdges
    /\ \E e \in DeadlockEdges : allEdges' = AddEdge(allEdges, e)
    /\ UNCHANGED <<units, registry, config, pc, out, registryLock, call, files, tui, mu>>

DeadlockDetect ==
    /\ pc = "build"
    /\ \E ord \in DeadlockOrders(allEdges) :
          out' = <<[op |-> "DetectDeadlocks", arg |-> "",
                    val |-> DetectDeadlocks(allEdges, ord)]>>
    /\ pc' = "done"
    /\ UNCHANGED <<units, allEdges, registry, config, registryLock, call, files, tui, mu>>

NextDeadlock == DeadlockAddEdge \/ DeadlockDetect

SpecDeadlock == InitDeadlock /\ [][NextDeadlock]_vars

\* There is an edge of the type from x to y.
HasEdge(x, y, type) == \E i \in 1..Len(allEdges) : allEdges[i] = Edge(x, y, type)

\* The severities of the five listed patterns that hold for (x, y).
PatternSeverities(x, y) ==
    (IF HasEdge(x, y, "After") /\ HasEdge(x, y, "BindsTo") /\ HasEdge(y, x, "Requires")
     THEN {"critical"} ELSE {})
    \cup (IF /\ HasEdge(x, y, "After") /\ HasEdge(y, x, "After")
             /\ (HasEdge(x, y, "BindsTo") \/ HasEdge(y, x, "BindsTo"))
          THEN {"high"} ELSE {})
    \cup (IF /\ HasEdge(x, y, "BindsTo") /\ HasEdge(y, x, "BindsTo")
             /\ HasEdge(x, y, "After") /\ HasEdge(y, x, "After")
          THEN {"critical"} ELSE {})
    \cup (IF /\ HasEdge(x, y, "BindsTo")
             /\ \E c \in DOMAIN units : HasEdge(y, c, "After") /\ HasEdge(c, x, "Requires")
          THEN {"high"} ELSE {})
    \cup (IF /\ HasEdge(x, y, "BindsTo")
             /\ \E z \in DOMAIN units : HasEdge(x, z, "Conflicts") /\ HasEdge(y, z, "Requires")
          THEN {"critical"} ELSE {})

\* C25: every deadlock returned by DetectDeadlocks has the severity of one
\* of the five listed patterns that holds for its unit pair; a pair for
\* which none holds is not reported.
C25_DeadlocksMatchListedPatterns ==
    pc = "done" =>
        \A k \in 1..Len(out[1].val.Deadlocks) :
            LET d == out[1].val.Deadlocks[k]
            IN d.Severity \in PatternSeverities(d.UnitA, d.UnitB)
                                 \cup PatternSeverities(d.UnitB, d.UnitA)

-----------------------------------------------------------------------------
(* Specification SpecLock: one goroutine runs public queries of the graph   *)
(* and one goroutine writes to it.  Graph.mu is a sync.RWMutex: RLock waits *)
(* while a writer holds the lock or waits for it, Lock announces the writer *)
(* and then waits until no reader holds the lock.  pc holds the position of *)
(* each goroutine, call the query in progress with the queries it still     *)
(* has to call and the one it is in.                                        *)

MaxQueries == 2
MaxWrites == 2

\* The public queries that the query calls while it holds the read lock.
NestedQueries(op) ==
    CASE op = "Stats" -> <<"FindCycles", "FindDanglingRefs">>
      [] op = "ToDOT" -> <<"FindCycles">>
      [] OTHER -> <<>>

PublicQueries == {"Stats", "ToDOT", "FindCycles", "FindDanglingRefs"}

NoQuery == [op |-> "", rule |-> "", pending |-> <<>>, nested |-> ""]

\* mu.RLock() returns: no writer holds or awaits the lock.
RLockReturns(m) == m.writer = "none"

RLock(m) == [m EXCEPT !.readers = @ + 1]
RUnlock(m) == [m EXCEPT !.readers = @ - 1]

Begun(kind) == Len(SelectSeq(out, LAMBDA e : e.op = kind))

InitLock ==
    /\ mu = NoLock
    /\ call = NoQuery
    /\ pc = [query |-> "idle", writer |-> "idle"]
    /\ units = NoUnits
    /\ allEdges = <<>>
    /\ registry = NoRules
    /\ registryLock = "unlocked"
    /\ tui = NoModel
    /\ files = NoFiles
    /\ config = DefaultConfig
    /\ out = <<>>

\* A public query is called: g.mu.RLock(); defer g.mu.RUnlock().
QueryRLock ==
    /\ pc.query = "idle"
    /\ Begun("query") < MaxQueries
    /\ RLockReturns(mu)
    /\ \E op \in PublicQueries :
          /\ call' = [NoQuery EXCEPT !.op = op, !.pending = NestedQueries(op)]
          /\ out' = Append(out, [op |-> "query", arg |-> op, val |-> ""])
    /\ mu' = RLock(mu)
    /\ pc' = [pc EXCEPT !.query = "body"]
    /\ UNCHANGED <<units, allEdges, registry, registryLock, config, files, tui>>

\* The query calls g.FindCycles() or g.FindDanglingRefs(), which starts
\* with g.mu.RLock().
NestedRLock ==
    /\ pc.query = "body"
    /\ call.pending # <<>>
    /\ RLockReturns(mu)
    /\ call' = [call EXCEPT !.nested = Head(call.pending), !.pending = Tail(call.pending)]
    /\ mu' = RLock(mu)
    /\ pc' = [pc EXCEPT !.query = "nested"]
    /\ UNCHANGED <<units, allEdges, registry, registryLock, config, out, files, tui>>

\* The called query returns: its deferred g.mu.RUnlock().
NestedRUnlock ==
    /\ pc.query = "nested"
    /\ call' = [call EXCEPT !.nested = ""]
    /\ mu' = RUnlock(mu)
    /\ pc' = [pc EXCEPT !.query = "body"]
    /\ UNCHANGED <<units, allEdges, registry, registryLock, config, out, files, tui>>

\* The query returns: its deferred g.mu.RUnlock().
QueryRUnlock ==
    /\ pc.query = "body"
    /\ call.pending = <<>>
    /\ call' = NoQuery
    /\ mu' = RUnlock(mu)
    /\ pc' = [pc EXCEPT !.query = "idle"]
    /\ UNCHANGED <<units, allEdges, registry, registryLock, config, out, files, tui>>

\* A writer calls g.mu.Lock(): from now on RLock waits.
WriterLock ==
    /\ pc.writer = "idle"
    /\ Begun("write") < MaxWrites
    /\ mu' = [mu EXCEPT !.writer = "waiting"]
    /\ out' = Append(out, [op |-> "write", arg |-> "AddEdge", val |-> ""])
    /\ pc' = [pc EXCEPT !.writer = "Lock"]
    /\ UNCHANGED <<units, allEdges, registry, registryLock, call, config, files, tui>>

\* g.mu.Lock() returns when no reader holds the lock.
WriterAcquire ==
    /\ pc.writer = "Lock"
    /\ mu.readers = 0
    /\ mu' = [mu EXCEPT !.writer = "held"]
    /\ pc' = [pc EXCEPT !.writer = "locked"]
    /\ UNCHANGED <<units, allEdges, registry, registryLock, call, config, out, files, tui>>

\* The writer adds its edge and calls g.mu.Unlock().
WriterUnlock ==
    /\ pc.writer = "locked"
    /\ allEdges' = AddEdge(allEdges, Edge("a", "b", "Requires"))
    /\ mu' = [mu EXCEPT !.writer = "none"]
    /\ pc' = [pc EXCEPT !.writer = "idle"]
    /\ UNCHANGED <<units, registry, registryLock, call, config, out, files, tui>>

NextLock ==
    \/ QueryRLock \/ NestedRLock \/ NestedRUnlock \/ QueryRUnlock
    \/ WriterLock \/ WriterAcquire \/ WriterUnlock

SpecLock == InitLock /\ [][NextLock]_vars

\* The query holds the read lock and waits for it a second time, while the
\* writer waits for the query to release it: neither goroutine can step.
QueryDeadlocked ==
    /\ pc.query = "body"
    /\ call.pending # <<>>
    /\ pc.writer = "Lock"

\* C27: no public query acquires the read lock while it holds it, so that a
\* query never waits for a lock that a waiting writer keeps it from getting.
C27_NoNestedReadLock ==
    /\ mu.readers <= 1
    /\ ~QueryDeadlocked

-----------------------------------------------------------------------------
(* Specification SpecFilter: RunFiltered is called on the context of one   *)
(* unit with a category, a minimum severity and tags, each given or not.   *)
(* A pointer argument is the sequence of what it points to, <<>> when nil. *)

MaxFilterRuns == 2

\* The filters of RunFiltered before rule.Check: whether the rule is run.
PassesCategory(id, category) ==
    ~(category # <<>> /\ RuleCategory(id) # category[1])

PassesMinSeverity(id, minSeverity) ==
    ~(minSeverity # <<>> /\ RuleSeverity(id) < minSeverity[1])

PassesTags(id, tags) ==
    ~(tags # {} /\ RuleTags(id) \cap tags = {})

\* rules.RunFiltered: the issue lists a call can return.
RECURSIVE RunFilteredFrom(_, _, _, _, _, _)
RunFilteredFrom(rules, i, ctx, category, minSeverity, tags) ==
    IF i > Len(rules) THEN {<<>>}
    ELSE IF \/ IsRuleDisabled(ctx, rules[i])
            \/ ~PassesCategory(rules[i], category)
            \/ ~PassesMinSeverity(rules[i], minSeverity)
            \/ ~PassesTags(rules[i], tags)
         THEN RunFilteredFrom(rules, i + 1, ctx, category, minSeverity, tags)
         ELSE {ApplyOverride(ctx, rules[i], issues) \o rest :
                  issues \in CheckOutcomes(rules[i], ctx),
                  rest \in RunFilteredFrom(rules, i + 1, ctx, category,
                                           minSeverity, tags)}

RunFiltered(reg, ctx, category, minSeverity, tags) ==
    RunFilteredFrom(All(reg), 1, ctx, category, minSeverity, tags)

FilterConfigs ==
    {DefaultConfig,
     [DisabledRules |-> {"BP004"}, SeverityOverrides |-> [r \in {} |-> 0]],
     [DisabledRules |-> {}, SeverityOverrides |-> [r \in {"BP002"} |-> SeverityHigh]],
     [DisabledRules |-> {}, SeverityOverrides |-> [r \in {"REL001"} |-> SeverityLow]]}

FilterCategories == {<<>>, <<"bestpractice">>, <<"reliability">>}

FilterSeverities ==
    {<<>>} \cup {<<m>> : m \in SeverityInfo..SeverityCritical}

FilterTags == {{}, {"deprecated"}, {"recovery", "documentation"}}

InitFilter ==
    /\ units \in {[n \in {"a"} |-> u] : u \in RuleUnitShapes("a")}
    /\ config \in FilterConfigs
    /\ allEdges = <<>>
    /\ registry = CatalogRegistry
    /\ registryLock = "unlocked"
    /\ call = NoCall
    /\ mu = NoLock
    /\ tui = NoModel
    /\ files = NoFiles
    /\ pc = "run"
    /\ out = <<>>

\* rules.RunFiltered on the context of the unit.
FilterRun ==
    /\ Len(out) < MaxFilterRuns
    /\ \E category \in FilterCategories, minSeverity \in FilterSeverities,
          tags \in FilterTags :
          \E issues \in RunFiltered(DOMAIN registry, Context(units["a"], units, config),
                                    category, minSeverity, tags) :
             out' = Append(out, [op |-> "RunFiltered",
                                 arg |-> [category |-> category,
                                          minSeverity |-> minSeverity,
                                          tags |-> tags],
                                 val |-> issues])
    /\ UNCHANGED <<units, allEdges, registry, registryLock, call, config, pc, files, tui, mu>>

SpecFilter == InitFilter /\ [][FilterRun]_vars

\* The issue lists of RunAll over the rules that pass the category and tag
\* filters.
RunAllRestricted(arg) ==
    RunAllFrom(SelectSeq(All(DOMAIN registry),
                         LAMBDA id : PassesCategory(id, arg.category)
                                     /\ PassesTags(id, arg.tags)),
               1, Context(units["a"], units, config))

\* C28: with a minimum severity m, RunFiltered returns exactly the issues of
\* RunAll (over the rules passing the category and tag filters) whose
\* reported severity is at least m, severity overrides included.
C28_MinSeverityOnReportedSeverity ==
    \A k \in 1..Len(out) :
        out[k].arg.minSeverity # <<>> =>
            out[k].val \in
                {SelectSeq(all, LAMBDA issue : issue.Severity >= out[k].arg.minSeverity[1]) :
                    all \in RunAllRestricted(out[k].arg)}

-----------------------------------------------------------------------------
(* Specification SpecOverlap: CheckFiles on the file system of SpecLoad     *)
(* with path arguments that name a file twice, or a directory and a file    *)
(* inside it, next to arguments that do not overlap.                        *)

MaxOverlapChecks == 1

OverlapArguments ==
    {<<SingleFile>>, <<Dir, SingleFile>>,
     <<SingleFile, SingleFile>>,
     <<Dir, Join(Dir, "x.service")>>,
     <<Join(Dir, "y.service"), Dir>>,
     <<Dir, Dir>>}

OverlapCheckFiles ==
    /\ Len(out) < MaxOverlapChecks
    /\ \E paths \in OverlapArguments :
          \E res \in CheckFiles(DOMAIN registry, files, paths, config) :
             out' = Append(out, [op |-> "CheckFiles", arg |-> paths, val |-> res])
    /\ UNCHANGED <<units, allEdges, registry, registryLock, call, config, pc, files, tui, mu>>

SpecOverlap == InitLoad /\ [][OverlapCheckFiles]_vars

\* No two elements of the sequence are equal.
NoRepeat(seq) == \A i, j \in 1..Len(seq) : i < j => seq[i] # seq[j]

\* C29: in a CheckFiles result every unit name occurs once in Units, TotalUnits
\* is the number of distinct unit names checked, and no rule is run twice
\* on a unit name (no rule reports the same unit twice), overlapping paths
\* included.
C29_CheckFilesDeduplicatesUnits ==
    \A k \in 1..Len(out) :
        LET res == out[k].val
        IN res.err = NoError =>
              /\ NoRepeat(res.Units)
              /\ res.TotalUnits = Cardinality(DOMAIN res.units)
              /\ NoRepeat([i \in 1..Len(res.Issues) |->
                              <<res.Issues[i].RuleID, res.Issues[i].Unit>>])

\* The paths of the call name no file twice.
DisjointPaths(paths) ==
    /\ NoRepeat(paths)
    /\ \A i \in 1..Len(paths) : paths[i] \in {Dir, SingleFile}

-----------------------------------------------------------------------------
(* Specification SpecBinding: a unit with BindsTo= and After= on up to      *)
(* MaxDirectiveLines lines each is checked by rule REL010 and by            *)
(* FindBindingIssues on the graph built from it.  A directive value is the  *)
(* sequence of its words and blanks, as in the graph builder.               *)

MaxDirectiveLines == 2

\* unit.GetDirective(section, key) on a value kept as its words; "" is <<>>.
GetDirectiveWords(u, section, key) ==
    IF Len(GetDirectives(u, section, key)) > 0
    THEN GetDirectives(u, section, key)[1].Value
    ELSE <<>>

BindingIssueText(b) == <<"BindsTo=", b, " without corresponding After=.">>

\* REL010.Check: the first BindsTo target, of the first BindsTo= value, that
\* is not in the first After= value.
REL010Check(ctx) ==
    LET unit == ctx.Unit
        bindsTo == splitDirectiveValue(GetDirectiveWords(unit, "Unit", "BindsTo"))
        after == splitDirectiveValue(GetDirectiveWords(unit, "Unit", "After"))
        afterSet == Range(after)
        missing == SelectSeq(bindsTo, LAMBDA b : b \notin afterSet)
    IN IF Len(missing) = 0 THEN <<>>
       ELSE <<[RuleID |-> "REL010", Severity |-> SeverityMedium,
               Category |-> "reliability", Unit |-> unit.Name,
               Description |-> BindingIssueText(missing[1])]>>

BindingIssue(edge) == [Unit |-> edge.from, BoundTo |-> edge.to]

\* The less function of FindBindingIssues' sort.Slice as a key.
BindingKey(issue) == NameOrd(issue.Unit) * 32 + NameOrd(issue.BoundTo)

\* Graph.FindBindingIssues: the BindsTo edges without an After edge between
\* the same units, by unit and target.
FindBindingIssues(E) ==
    LET afterIndex == [from \in {e.from : e \in Range(E)} |->
                          {e.to : e \in {x \in Range(E) :
                                           x.type = "After" /\ x.from = from}}]
        unordered(e) == /\ e.type = "BindsTo"
                        /\ ~(afterIndex[e.from] # {} /\ e.to \in afterIndex[e.from])
        found == SelectSeq(E, unordered)
    IN SortByKey([i \in 1..Len(found) |-> BindingIssue(found[i])], BindingKey)

BindingValues == {<<"b.service">>, <<"c">>, <<"b.service", " ", "c">>}

\* The values of a directive given on zero to MaxDirectiveLines lines.
BindingLines ==
    UNION {[1..n -> BindingValues] : n \in 0..MaxDirectiveLines}

\* The unit a.service with the given BindsTo= and After= lines in [Unit].
BindingUnit(bindsTo, after) ==
    LET keys == (IF bindsTo # <<>> THEN {"BindsTo"} ELSE {})
                \cup (IF after # <<>> THEN {"After"} ELSE {})
        lines(k) == IF k = "BindsTo" THEN bindsTo ELSE after
    IN UnitFile("a.service", "service",
                IF keys = {} THEN NoSections
                ELSE [s \in {"Unit"} |->
                        [k \in keys |->
                           [i \in 1..Len(lines(k)) |-> Directive(lines(k)[i], i)]]])

InitBinding ==
    /\ \E bindsTo \in BindingLines, after \in BindingLines :
          units = [n \in {"a.service"} |-> BindingUnit(bindsTo, after)]
    /\ config = DefaultConfig
    /\ allEdges = <<>>
    /\ registry = NoRules
    /\ registryLock = "unlocked"
    /\ call = NoCall
    /\ mu = NoLock
    /\ tui = NoModel
    /\ files = NoFiles
    /\ pc = "load"
    /\ out = <<>>

\* graph.Build(units)
BindingBuild ==
    /\ pc = "load"
    /\ \E orders \in BuildOrders(units) :
          allEdges' = BuildFromUnits(units, orders)
    /\ pc' = "built"
    /\ UNCHANGED <<units, registry, registryLock, call, config, out, files, tui, mu>>

\* REL010.Check on the context of the unit.
BindingCheck ==
    /\ pc = "built"
    /\ \A k \in 1..Len(out) : out[k].op # "REL010"
    /\ out' = Append(out, [op |-> "REL010", arg |-> "a.service",
                           val |-> REL010Check(Context(units["a.service"], units, config))])
    /\ UNCHANGED <<units, allEdges, registry, registryLock, call, config, pc, files, tui, mu>>

\* g.FindBindingIssues() on the built graph.
BindingFind ==
    /\ pc = "built"
    /\ \A k \in 1..Len(out) : out[k].op # "FindBindingIssues"
    /\ out' = Append(out, [op |-> "FindBindingIssues", arg |-> "",
                           val |-> FindBindingIssues(allEdges)])
    /\ UNCHANGED <<units, allEdges, registry, registryLock, call, config, pc, files, tui, mu>>

NextBinding == BindingBuild \/ BindingCheck \/ BindingFind

SpecBinding == InitBinding /\ [][NextBinding]_vars

\* C30: REL010 reports an issue for a unit exactly when FindBindingIssues,
\* on the graph built from the same unit, reports that unit: when the unit
\* has a BindsTo edge without an After edge to the same target.
C30_REL010MatchesFindBindingIssues ==
    \A i, j \in 1..Len(out) :
        (out[i].op = "REL010" /\ out[j].op = "FindBindingIssues") =>
            ((out[i].val # <<>>) <=>
                (\E k \in 1..Len(out[j].val) : out[j].val[k].Unit = out[i].arg))

\* Every directive of the unit is on one line.
SingleLines ==
    \A k \in DOMAIN units["a.service"].Sections :
        \A d \in DOMAIN units["a.service"].Sections[k] :
            Len(units["a.service"].Sections[k][d]) <= 1

=============================================================================
